---- MODULE Spec2Model ----
(***************************************************************************)
(* Model of the Swift component scanner: SwiftScanner (src/SwiftScanner.js)*)
(* driven by the `scan` command of src/ScannerCLI.js, together with the    *)
(* earlier revision of extractMetadata kept in src/unnamed/part_000.       *)
(*                                                                         *)
(* JavaScript strings are modelled as sequences of tokens.  A token is an  *)
(* indivisible run of characters: names of symbols are spelled character   *)
(* by character, kinds and paths are spelled word by word with their       *)
(* separators ("." and "/") as tokens of their own.  All string operations *)
(* (split, trim, includes, startsWith, endsWith, replace, substring) are   *)
(* computed on these sequences.                                            *)
(***************************************************************************)
EXTENDS Integers, Sequences, FiniteSets, TLC

(***************************************************************************)
(* Bounds of the model.                                                    *)
(***************************************************************************)
\* longest generated file content handed to findLineAndColumn
MaxContentLen == 3
\* number of method calls made on one scanner instance by the method harness
MaxCalls == 2
\* number of root paths given to one `scan` invocation
MaxRoots == 2

(***************************************************************************)
(* JavaScript values and string operations.                                *)
(***************************************************************************)
\* `undefined`
Undefined == <<"undefined">>
\* `null`
Null == [isNull |-> TRUE]
\* the empty object literal `{}`
EmptyObject == [isEmptyObject |-> TRUE]
\* the newline character
NL == "\n"

\* s.length > 0: a non-empty string is truthy, '' and undefined are falsy
Truthy(s) == s # Undefined /\ s # <<>>

\* s[i] with a 0-based index; out of range yields undefined
CharAt(s, i) == IF i + 1 \in DOMAIN s THEN s[i + 1] ELSE Undefined

\* s.startsWith(p)
StartsWith(s, p) == Len(p) <= Len(s) /\ SubSeq(s, 1, Len(p)) = p

\* s.endsWith(p)
EndsWith(s, p) == Len(p) <= Len(s) /\ SubSeq(s, Len(s) - Len(p) + 1, Len(s)) = p

\* the 1-based positions at which n occurs in s
Occurrences(s, n) == {i \in 1..(Len(s) - Len(n) + 1) : SubSeq(s, i, i + Len(n) - 1) = n}

\* s.includes(n)
Includes(s, n) == Occurrences(s, n) # {}

\* smallest element of a non-empty set of integers
Min(S) == CHOOSE x \in S : \A y \in S : x <= y

\* largest element of a non-empty set of integers
Max(S) == CHOOSE x \in S : \A y \in S : y <= x

\* s.split(sep)[0]: the text before the first occurrence of sep
SplitFirst(s, sep) ==
    IF Includes(s, sep) THEN SubSeq(s, 1, Min(Occurrences(s, sep)) - 1) ELSE s

\* s.split(sep)[1]: the text between the first and the second occurrence of sep
SplitSecond(s, sep) ==
    LET first == Min(Occurrences(s, sep))
        rest  == SubSeq(s, first + Len(sep), Len(s))
    IN SplitFirst(rest, sep)

\* s.trim(): leading and trailing blanks removed
RECURSIVE TrimLeft(_)
TrimLeft(s) == IF s # <<>> /\ Head(s) = " " THEN TrimLeft(Tail(s)) ELSE s

RECURSIVE TrimRight(_)
TrimRight(s) ==
    IF s # <<>> /\ s[Len(s)] = " " THEN TrimRight(SubSeq(s, 1, Len(s) - 1)) ELSE s

Trim(s) == TrimRight(TrimLeft(s))

\* s.replace(n, ''): the first occurrence of n removed
ReplaceFirst(s, n) ==
    IF Includes(s, n)
    THEN LET i == Min(Occurrences(s, n))
         IN SubSeq(s, 1, i - 1) \o SubSeq(s, i + Len(n), Len(s))
    ELSE s

\* s.toLowerCase(), token by token
LowerToken(t) ==
    CASE t = "App" -> "app"
      [] t = "Lib" -> "lib"
      [] t = "LIB" -> "lib"
      [] OTHER -> t

ToLowerCase(s) == [i \in DOMAIN s |-> LowerToken(s[i])]

\* obj[field]: undefined when the object has no such property
Prop(obj, field) == IF field \in DOMAIN obj THEN obj[field] ELSE Undefined

\* all sequences over S of length at most n
BoundedSeq(S, n) == UNION {[1..k -> S] : k \in 0..n}

(***************************************************************************)
(* Kinds, names and module names that occur in the modelled inputs.        *)
(***************************************************************************)
\* the namespace prefix 'source.lang.swift.'
SwiftPrefix == <<"source", ".", "lang", ".", "swift", ".">>

KindFunctionFree == SwiftPrefix \o <<"decl", ".", "function", ".", "free">>
KindClass        == SwiftPrefix \o <<"decl", ".", "class">>
KindExprCall     == SwiftPrefix \o <<"expr", ".", "call">>
KindStmtBrace    == SwiftPrefix \o <<"stmt", ".", "brace">>

\* 'foo'
NameFoo == <<"f", "o", "o">>
\* 'foo(bar:)'
NameFooBar == <<"f", "o", "o", "(", "b", "a", "r", ":", ")">>
\* 'food'
NameFood == <<"f", "o", "o", "d">>
\* 'foo (bar:)': a blank before the parameter list
NameFooBlank == <<"f", "o", "o", " ", "(", "b", "a", "r", ":", ")">>
\* '(f)': nothing before the first '('
NameParen == <<"(", "f", ")">>
\* a node without key.name
NoName == Undefined

ModApp == <<"App">>
ModLib == <<"Lib">>
ModSwift == <<"Swift">>

(***************************************************************************)
(* findLineAndColumn                                                       *)
(***************************************************************************)
\* the value standing for a file whose read throws
Unreadable == <<"ENOENT">>

\* while (lineStart > 0 && fileContent[lineStart - 1] !== '\n') lineStart--
RECURSIVE LineStart(_, _)
LineStart(fileContent, lineStart) ==
    IF lineStart > 0 /\ CharAt(fileContent, lineStart - 1) # NL
    THEN LineStart(fileContent, lineStart - 1)
    ELSE lineStart

\* the line count with the loop running up to and including lineStart
CountLinesInclusive(fileContent, lineStart) ==
    1 + Cardinality({i \in 0..lineStart : CharAt(fileContent, i) = NL})

\* for (i = 0; i < lineStart; i++) if (fileContent[i] === '\n') line++
CountLines(fileContent, lineStart) ==
    1 + Cardinality({i \in 0..(lineStart - 1) : CharAt(fileContent, i) = NL})

\* column = offset - lineStart, one short of the code's value
FindLineAndColumnZeroBased(fileContent, offset) ==
    IF fileContent = Unreadable
    THEN Null
    ELSE LET lineStart == LineStart(fileContent, offset)
         IN [line |-> CountLines(fileContent, lineStart), column |-> offset - lineStart]

\* findLineAndColumn(fileName, offset), fileContent being what readFileSync
\* yields for fileName
FindLineAndColumn(fileContent, offset) ==
    IF fileContent = Unreadable
    THEN Null
    ELSE LET lineStart == LineStart(fileContent, offset)
         IN [line   |-> CountLines(fileContent, lineStart),
             column |-> offset - lineStart + 1]

(***************************************************************************)
(* Module topology helpers                                                 *)
(***************************************************************************)
\* isThirdParty(moduleName) taking a module it does not know for a dependency
IsThirdPartyUnlessKnown(projectModulesList, moduleName) ==
    LET found == {i \in DOMAIN projectModulesList :
                     projectModulesList[i].name = moduleName}
    IN IF found = {} THEN TRUE ELSE projectModulesList[Min(found)].isThirdParty

\* isThirdParty(moduleName): the flag of the first module of that name
IsThirdParty(projectModulesList, moduleName) ==
    LET found == {i \in DOMAIN projectModulesList :
                     projectModulesList[i].name = moduleName}
    IN IF found = {} THEN FALSE ELSE projectModulesList[Min(found)].isThirdParty

\* getDesignSystems(moduleName)
GetDesignSystems(designSystemModules, moduleName) ==
    SelectSeq(designSystemModules,
              LAMBDA d : ToLowerCase(d) = ToLowerCase(moduleName))

\* validPath(directoryPath) letting every directory through when no module
\* is known
ValidPathNoModules(projectModulesList, directoryPath) ==
    \/ projectModulesList = <<>>
    \/ \E i \in DOMAIN projectModulesList :
           Includes(projectModulesList[i].path, directoryPath)

\* validPath(directoryPath): some module.path includes directoryPath
ValidPath(projectModulesList, directoryPath) ==
    \E i \in DOMAIN projectModulesList :
        Includes(projectModulesList[i].path, directoryPath)

(***************************************************************************)
(* extractMetadata                                                         *)
(***************************************************************************)
\* obj[key] = value on an object used as a map
Put(obj, key, value) ==
    [k \in (DOMAIN obj) \cup {key} |-> IF k = key THEN value ELSE obj[k]]

\* obj[key] || 0
GetOrZero(obj, key) == IF key \in DOMAIN obj THEN obj[key] ELSE 0

\* the position of the element that array[key] denotes for a string key:
\* only the decimal spelling of an index denotes an element; 0 when none
ArrayIndexOfKey(array, key) ==
    LET found == {i \in DOMAIN array : key = <<ToString(i - 1)>>}
    IN IF found = {} THEN 0 ELSE Min(found)

\* the metadata id built from the candidate's base name
MetadataIdBaseName(component, existingComponent) ==
    existingComponent.moduleName \o <<"/">>
        \o Trim(SplitFirst(component.name, <<"(">>)) \o <<"/">>
        \o ReplaceFirst(component.kind, SwiftPrefix)

\* `${existingComponent.moduleName}/${componentName}/${componentType}`
MetadataId(component, existingComponent) ==
    existingComponent.moduleName \o <<"/">> \o component.name \o <<"/">>
        \o ReplaceFirst(component.kind, SwiftPrefix)

\* the record created when the lookup finds nothing
NewMetadata(projectModulesList, designSystemModules, component, existingComponent) ==
    [id                   |-> MetadataId(component, existingComponent),
     name                 |-> component.name,
     tags                 |-> <<>>,
     overriddenComponents |-> <<>>,
     designSystems        |-> GetDesignSystems(designSystemModules,
                                               existingComponent.moduleName),
     designDocs           |-> Prop(existingComponent, "docBrief"),
     isSelfDeclared       |-> ~IsThirdParty(projectModulesList,
                                            existingComponent.moduleName),
     filewiseOccurences   |-> <<>>,
     totalOccurences      |-> 0,
     stories              |-> <<>>,
     filewiseLocation     |-> <<>>,
     type                 |-> ReplaceFirst(component.kind, SwiftPrefix),
     libraryName          |-> existingComponent.moduleName,
     thirdParty           |-> IsThirdParty(projectModulesList,
                                           existingComponent.moduleName)]

\* metadata.totalOccurences++; metadata.filewiseOccurences[filePath] = (.. || 0) + 1
CountOccurrence(metadata, filePath) ==
    [metadata EXCEPT
        !.totalOccurences = @ + 1,
        !.filewiseOccurences = Put(@, filePath, GetOrZero(@, filePath) + 1)]

\* metadata.filewiseLocation[filePath] = [{ line, column, offset }]
RecordLocation(metadata, filePath, location, offset) ==
    [metadata EXCEPT
        !.filewiseLocation =
            Put(@, filePath, <<[line   |-> location.line,
                                column |-> location.column,
                                offset |-> offset]>>)]

\* extractMetadata storing the record although the location lookup threw,
\* after the total was counted and before the file count was
ExtractMetadataStoresPartial(codebaseComponents, projectModulesList, designSystemModules, component, existingComponent, filePath, fileContent) ==
    LET metadata == NewMetadata(projectModulesList, designSystemModules,
                                component, existingComponent)
        location == FindLineAndColumn(fileContent, component.offset)
    IN IF location = Null
       THEN [codebaseComponents |->
                 Append(codebaseComponents,
                        [metadata EXCEPT !.totalOccurences = @ + 1]),
             result |-> EmptyObject]
       ELSE LET updated == RecordLocation(CountOccurrence(metadata, filePath),
                                          filePath, location, component.offset)
            IN [codebaseComponents |-> Append(codebaseComponents, updated),
                result |-> updated]

\* extractMetadata(component, existingComponent, fileContent, filePath) of
\* src/SwiftScanner.js, codebaseComponents being an array.  fileContent is
\* what findLineAndColumn reads from filePath.  Yields the array afterwards
\* and the returned value.
ExtractMetadata(codebaseComponents, projectModulesList, designSystemModules, component, existingComponent, filePath, fileContent) ==
    LET metadataId == MetadataId(component, existingComponent)
        at         == ArrayIndexOfKey(codebaseComponents, metadataId)
        metadata   == IF at = 0
                      THEN NewMetadata(projectModulesList, designSystemModules,
                                       component, existingComponent)
                      ELSE codebaseComponents[at]
        counted    == CountOccurrence(metadata, filePath)
        \* an existing element is updated in place
        inPlace    == IF at = 0 THEN codebaseComponents
                      ELSE [codebaseComponents EXCEPT ![at] = counted]
        location   == FindLineAndColumn(fileContent, component.offset)
    IN IF location = Null
       THEN \* destructuring null throws; the catch returns {}
            [codebaseComponents |-> inPlace, result |-> EmptyObject]
       ELSE LET updated == RecordLocation(counted, filePath, location,
                                          component.offset)
                stored  == IF at = 0 THEN codebaseComponents
                           ELSE [codebaseComponents EXCEPT ![at] = updated]
            IN [codebaseComponents |-> Append(stored, updated),
                result |-> updated]

\* extractMetadata of src/unnamed/part_000, codebaseComponents being an
\* object keyed by metadata id
LegacyExtractMetadata(codebaseComponents, projectModulesList, designSystemModules, component, existingComponent, filePath, fileContent) ==
    LET metadataId == MetadataId(component, existingComponent)
        exists     == metadataId \in DOMAIN codebaseComponents
        metadata   == IF exists
                      THEN codebaseComponents[metadataId]
                      ELSE NewMetadata(projectModulesList, designSystemModules,
                                       component, existingComponent)
        counted    == CountOccurrence(metadata, filePath)
        location   == FindLineAndColumn(fileContent, component.offset)
    IN IF location = Null
       THEN [codebaseComponents |->
                 IF exists THEN Put(codebaseComponents, metadataId, counted)
                 ELSE codebaseComponents,
             result |-> EmptyObject]
       ELSE LET updated == RecordLocation(counted, filePath, location,
                                          component.offset)
            IN [codebaseComponents |-> Put(codebaseComponents, metadataId, updated),
                result |-> updated]

(***************************************************************************)
(* processComponents                                                       *)
(***************************************************************************)
\* name.split('(')[0].trim()
BaseName(name) == Trim(SplitFirst(name, <<"(">>))

\* the pre-processed entries of one bucket: entries without a name are left out
ProcessedComponents(bucket) ==
    LET named == SelectSeq(bucket, LAMBDA moduleComponent :
                                       Truthy(Prop(moduleComponent, "name")))
    IN [j \in DOMAIN named |->
           [baseName      |-> BaseName(named[j].name),
            kind          |-> named[j].kind,
            isFunc        |-> Includes(named[j].kind, <<"function">>),
            fullComponent |-> named[j]]]

\* moduleComponentsMap: one pre-processed bucket per module, in the order of
\* the keys of componentsDataset
ModuleComponentsMap(componentsDataset) ==
    [m \in DOMAIN componentsDataset |->
        [moduleName |-> componentsDataset[m].moduleName,
         components |-> ProcessedComponents(componentsDataset[m].bucket)]]

\* the matching test comparing names only up to a common prefix
EntryMatchesPrefix(entry, componentName, componentKind) ==
    /\ StartsWith(componentName, entry.baseName)
    /\ \/ entry.isFunc /\ Includes(componentKind, <<"expr">>)
       \/ entry.kind = componentKind

\* the test of the inner loop for one pre-processed entry
EntryMatches(entry, componentName, componentKind) ==
    /\ entry.baseName = componentName
    /\ \/ entry.isFunc /\ Includes(componentKind, <<"expr">>)
       \/ entry.kind = componentKind

\* position of the first entry of the bucket passing the test; 0 when none
FirstMatch(moduleComponents, componentName, componentKind) ==
    LET hits == {j \in DOMAIN moduleComponents :
                    EntryMatches(moduleComponents[j], componentName, componentKind)}
    IN IF hits = {} THEN 0 ELSE Min(hits)

\* the callback of moduleComponentsMap.forEach applied to the modules from
\* position m on: the `return` ends the callback of one module only
RECURSIVE ForEachModule(_, _, _, _, _, _)
ForEachModule(st, map, m, component, componentName, ctx) ==
    IF m > Len(map)
    THEN st
    ELSE LET j == FirstMatch(map[m].components, componentName, component.kind)
         IN IF j = 0
            THEN ForEachModule(st, map, m + 1, component, componentName, ctx)
            ELSE LET r == ExtractMetadata(st.codebaseComponents,
                                          ctx.projectModulesList,
                                          ctx.designSystemModules,
                                          component,
                                          map[m].components[j].fullComponent,
                                          ctx.filePath, ctx.fileContent)
                     \* `if (metadata)`: every object, {} included, is truthy
                     next == [codebaseComponents |-> r.codebaseComponents,
                              projectComponents  |->
                                  Append(st.projectComponents, r.result)]
                 IN ForEachModule(next, map, m + 1, component, componentName, ctx)

\* components.forEach(...) from position i on
RECURSIVE ForEachComponent(_, _, _, _, _)
ForEachComponent(st, map, components, i, ctx) ==
    IF i > Len(components)
    THEN st
    ELSE LET component     == components[i]
             componentName == IF Truthy(component.name)
                              THEN BaseName(component.name)
                              ELSE component.name
         IN IF ~Truthy(componentName)
            THEN ForEachComponent(st, map, components, i + 1, ctx)
            ELSE ForEachComponent(
                     ForEachModule(st, map, 1, component, componentName, ctx),
                     map, components, i + 1, ctx)

\* processComponents(components, filePath, fileContent): st holds
\* codebaseComponents and projectComponents, ctx the rest of the scanner
\* and the file
ProcessComponents(st, componentsDataset, components, ctx) ==
    ForEachComponent(st, ModuleComponentsMap(componentsDataset), components, 1, ctx)

(***************************************************************************)
(* extractComponentsFromStructure                                          *)
(***************************************************************************)
\* the prefix test that retains a node
IsSwiftComponent(kind) ==
    \/ StartsWith(kind, SwiftPrefix \o <<"decl">>)
    \/ StartsWith(kind, SwiftPrefix \o <<"expr">>)
    \/ StartsWith(kind, SwiftPrefix \o <<"structure">>)

\* the traversal descending only into the nodes it retains
RECURSIVE ExtractFromRetainedOnly(_, _, _)
ExtractFromRetainedOnly(substructure, i, components) ==
    IF i > Len(substructure)
    THEN components
    ELSE LET component == substructure[i]
         IN IF component.kind = Undefined
            THEN components
            ELSE IF IsSwiftComponent(component.kind)
                 THEN ExtractFromRetainedOnly(
                          substructure, i + 1,
                          Append(components, component)
                              \o ExtractFromRetainedOnly(component.substructure, 1, <<>>))
                 ELSE ExtractFromRetainedOnly(substructure, i + 1, components)

\* extractComponentsFromStructure(fileStructure); the loop over
\* key.substructure from position i on with the components collected so far.
\* A node without key.kind makes the test throw: the catch of that
\* invocation returns what it had collected.
RECURSIVE ExtractFrom(_, _, _)
ExtractFrom(substructure, i, components) ==
    IF i > Len(substructure)
    THEN components
    ELSE LET component == substructure[i]
         IN IF component.kind = Undefined
            THEN components
            ELSE LET kept == IF IsSwiftComponent(component.kind)
                             THEN Append(components, component)
                             ELSE components
                 IN ExtractFrom(substructure, i + 1,
                                kept \o ExtractFrom(component.substructure, 1, <<>>))

ExtractComponentsFromStructure(fileStructure) ==
    ExtractFrom(fileStructure.substructure, 1, <<>>)

(***************************************************************************)
(* The file system and the oracles the scanner runs against.               *)
(***************************************************************************)
\* path.join(directory, name)
Join(directory, name) == directory \o <<"/">> \o name

Slash == <<"/">>
DirP   == <<"/", "p">>
DirS   == Join(DirP, <<"S">>)
DirA   == Join(DirS, <<"A">>)
DirSub == Join(DirA, <<"Sub">>)
DirT   == Join(DirP, <<"T">>)
\* a directory outside the project whose path is part of the path of DirA
DirMid == <<"/", "S">>
\* a path that does not exist
DirQ   == <<"/", "q">>
FileA   == Join(DirA, <<"a", ".swift">>)
FileB   == Join(DirSub, <<"b", ".swift">>)
FileT   == Join(DirT, <<"t", ".swift">>)
FileS   == Join(DirMid, <<"s", ".swift">>)
FileTxt == Join(DirA, <<"n", ".txt">>)
\* the first source file of the checked-out dependency
FileL   == <<"/", "p", "/", ".build", "/", "checkouts", "/", "L", "/", "l", ".swift">>
\* an intermediate build product
FileObj == <<"/", "p", "/", ".build", "/", "debug", "/", "g", ".o">>

Directories == {DirP, DirS, DirA, DirSub, DirT, DirMid}
SwiftFiles == {FileA, FileB, FileT, FileS}

\* fs.readdir(directory); the entry `gone` of DirA is a link whose target
\* was removed, fs.stat fails on it
ReadDir(directory) ==
    CASE directory = DirP   -> << <<"S">>, <<"T">> >>
      [] directory = DirS   -> << <<"A">> >>
      [] directory = DirA   -> << <<"Sub">>, <<"gone">>, <<"a", ".swift">>,
                                  <<"n", ".txt">> >>
      [] directory = DirSub -> << <<"b", ".swift">> >>
      [] directory = DirT   -> << <<"t", ".swift">> >>
      [] directory = DirMid -> << <<"s", ".swift">> >>
      [] OTHER -> <<>>

\* the text of a source file
FileContent(filePath) ==
    CASE filePath = FileA -> <<"x", NL, "y", "y", NL, "z">>
      [] filePath = FileB -> <<"x", "y">>
      [] filePath = FileT -> <<"x", NL, "y">>
      [] filePath = FileS -> <<"x", NL, "y">>
      [] filePath = FileL -> <<"x", NL>>
      [] OTHER -> <<>>

\* a node of the structure reported by `sourcekitten structure`
Node(name, kind, offset, substructure) ==
    [name |-> name, kind |-> kind, offset |-> offset, substructure |-> substructure]

\* the parsed output of `sourcekitten structure --file filePath`
FileStructure(filePath) ==
    CASE filePath = FileA ->
            Node(NoName, Undefined, 0,
                 << Node(NameFoo, KindExprCall, 2, <<>>),
                    Node(NoName, KindStmtBrace, 3,
                         << Node(NameFoo, KindExprCall, 5, <<>>) >>) >>)
      [] filePath = FileB ->
            Node(NoName, Undefined, 0,
                 << Node(NameFooBar, KindFunctionFree, 1, <<>>) >>)
      [] filePath \in {FileT, FileS} ->
            Node(NoName, Undefined, 0,
                 << Node(NameFoo, KindExprCall, 2, <<>>) >>)
      [] OTHER -> Node(NoName, Undefined, 0, <<>>)

\* a catalog entry as the completion oracle reports it
Entry(name, kind, moduleName, docBrief) ==
    [name |-> name, kind |-> kind, moduleName |-> moduleName, docBrief |-> docBrief]

EntryAppFoo == Entry(NameFooBar, KindFunctionFree, ModApp, <<"app", "doc">>)
EntryLibFoo == Entry(NameFooBar, KindFunctionFree, ModLib, <<"lib", "doc">>)
EntryPrint  == [name |-> <<"p">>, kind |-> KindFunctionFree, moduleName |-> ModSwift]

\* one bucket of componentsDataset
Bucket(moduleName, bucket) == [moduleName |-> moduleName, bucket |-> bucket]

\* catalogs found in components_dataset.json
CatalogEmpty == <<>>
CatalogApp   == << Bucket(ModApp, <<EntryAppFoo>>) >>
CatalogTwo   == << Bucket(ModApp, <<EntryAppFoo>>), Bucket(ModLib, <<EntryLibFoo>>) >>

\* the parsed output of `sourcekitten complete` for one module
Completions(moduleName) ==
    CASE moduleName = ModApp -> <<EntryAppFoo, EntryPrint>>
      [] moduleName = ModLib -> <<EntryLibFoo, EntryPrint>>
      [] OTHER -> <<>>

(***************************************************************************)
(* getDebugYaml: the module topology from .build/debug.yaml                *)
(***************************************************************************)
\* one entry of data.commands
Command(key, inputs) == [key |-> key, inputs |-> inputs]

KeyPackageStructure == <<"PackageStructure">>
KeyApp    == <<"C", ".", "App", "-", "debug", ".", "module">>
KeyLib    == <<"C", ".", "Lib", "-", "debug", ".", "module">>
KeyGen    == <<"C", ".", "Gen", "-", "debug", ".", "module">>
KeyPhony  == <<"<", "App", "-", "debug", ".", "module", ">">>

\* the manifest file is absent: readFile fails with ENOENT
ManifestMissing == [status |-> "missing", commands |-> <<>>]
\* the manifest is no YAML, or lacks commands.PackageStructure
ManifestMalformed == [status |-> "present",
                      commands |-> << Command(KeyApp, <<FileA>>) >>]
\* a first-party module, a checked-out dependency and an intermediate target
ManifestAppLib ==
    [status |-> "present",
     commands |-> << Command(KeyPackageStructure, <<DirP>>),
                     Command(KeyApp, <<FileA>>),
                     Command(KeyLib, <<FileL>>),
                     Command(KeyGen, <<FileObj>>),
                     Command(KeyPhony, <<FileA>>) >>]
\* a well-formed manifest without any compiled module
ManifestNoModules ==
    [status |-> "present",
     commands |-> << Command(KeyPackageStructure, <<DirP>>),
                     Command(KeyPhony, <<FileA>>) >>]

BuildCheckouts == <<".build", "/", "checkouts">>

\* s.split('/') with the last element popped, joined by '/'
DropLastSegment(s) ==
    IF Includes(s, Slash) THEN SubSeq(s, 1, Max(Occurrences(s, Slash)) - 1) ELSE <<>>

\* mod.substring(2, mod.lastIndexOf("-"))
ModuleNameOfKey(mod) ==
    IF Includes(mod, <<"-">>)
    THEN SubSeq(mod, 3, Max(Occurrences(mod, <<"-">>)) - 1)
    ELSE SubSeq(mod, 1, 2)

\* the source path derived from the first input of a command
ModulePath(originalPath) ==
    IF Includes(originalPath, BuildCheckouts)
    THEN SplitFirst(originalPath, BuildCheckouts) \o BuildCheckouts
             \o DropLastSegment(SplitSecond(originalPath, BuildCheckouts))
    ELSE DropLastSegment(originalPath)

\* the element pushed onto projectModulesList for one command
ModuleOfCommand(command) ==
    [name         |-> ModuleNameOfKey(command.key),
     path         |-> ModulePath(command.inputs[1]),
     originalPath |-> command.inputs[1],
     isThirdParty |-> Includes(command.inputs[1], BuildCheckouts)]

\* getDebugYaml(): rejects when the file cannot be read or an expected key
\* is missing, otherwise yields the modules it pushes
GetDebugYaml(manifest) ==
    LET commands   == manifest.commands
        moduleKeys == SelectSeq(commands, LAMBDA c : StartsWith(c.key, <<"C", ".">>))
        throws     == \/ manifest.status = "missing"
                      \/ ~\E i \in DOMAIN commands : commands[i].key = KeyPackageStructure
                      \/ \E i \in DOMAIN moduleKeys : moduleKeys[i].inputs = <<>>
        selected   == SelectSeq(moduleKeys,
                          LAMBDA c : \/ Includes(c.inputs[1], BuildCheckouts)
                                     \/ ~Includes(c.inputs[1], <<".build">>))
    IN IF throws
       THEN [rejected |-> TRUE, modules |-> <<>>]
       ELSE [rejected |-> FALSE,
             modules  |-> [i \in DOMAIN selected |-> ModuleOfCommand(selected[i])]]

(***************************************************************************)
(* The catalog: updateDataset, saveDataset, loadDataset                    *)
(***************************************************************************)
\* position of the bucket of moduleName in componentsDataset; 0 when none
BucketIndex(componentsDataset, moduleName) ==
    LET found == {m \in DOMAIN componentsDataset :
                     componentsDataset[m].moduleName = moduleName}
    IN IF found = {} THEN 0 ELSE Min(found)

\* updateDataset(components) from position i on
RECURSIVE UpdateDataset(_, _, _)
UpdateDataset(componentsDataset, components, i) ==
    IF i > Len(components)
    THEN componentsDataset
    ELSE LET component == components[i]
             at == BucketIndex(componentsDataset, component.moduleName)
             next == IF at = 0
                     THEN Append(componentsDataset,
                                 Bucket(component.moduleName, <<component>>))
                     ELSE [componentsDataset EXCEPT
                              ![at].bucket = Append(@, component)]
         IN UpdateDataset(next, components, i + 1)

\* components_dataset.json: whether it exists and the JSON text it holds
DatasetFile(exists, content) == [exists |-> exists, content |-> content]

\* the double quote and the backslash of JSON text
Quote == "\""
Backslash == "\\"

\* the pieces of parts joined by sep, as Array.prototype.join does
RECURSIVE JoinWith(_, _)
JoinWith(parts, sep) ==
    IF parts = <<>> THEN <<>>
    ELSE IF Len(parts) = 1 THEN parts[1]
    ELSE parts[1] \o sep \o JoinWith(Tail(parts), sep)

\* a string written between quotes as it is, without any escaping
EscapeNothing(s) == s

\* the characters of a string as JSON.stringify writes them between quotes
RECURSIVE Escape(_)
Escape(s) ==
    IF s = <<>> THEN <<>>
    ELSE (CASE Head(s) = Quote     -> <<Backslash, Quote>>
            [] Head(s) = Backslash -> <<Backslash, Backslash>>
            [] Head(s) = NL        -> <<Backslash, "n">>
            [] OTHER               -> <<Head(s)>>) \o Escape(Tail(s))

\* JSON.stringify of a string
StringifyString(s) == <<Quote>> \o Escape(s) \o <<Quote>>

\* the properties of a catalog entry, in the order they are written
EntryFields == <<"name", "kind", "moduleName", "docBrief">>

\* JSON.stringify of one object: properties holding undefined are left out
StringifyObject(obj) ==
    LET present == SelectSeq(EntryFields,
                             LAMBDA f : f \in DOMAIN obj /\ obj[f] # Undefined)
        members == [k \in DOMAIN present |->
                       StringifyString(<<present[k]>>) \o <<":", " ">>
                           \o StringifyString(obj[present[k]])]
    IN IF present = <<>> THEN <<"{", "}">>
       ELSE <<"{", NL>> \o JoinWith(members, <<",", NL>>) \o <<NL, "}">>

\* JSON.stringify of one bucket, an array of entries
StringifyArray(bucket) ==
    IF bucket = <<>> THEN <<"[", "]">>
    ELSE <<"[", NL>>
             \o JoinWith([j \in DOMAIN bucket |-> StringifyObject(bucket[j])], <<",", NL>>)
             \o <<NL, "]">>

\* JSON.stringify(this.componentsDataset, null, 2)
JsonStringify(componentsDataset) ==
    LET members == [m \in DOMAIN componentsDataset |->
                       StringifyString(componentsDataset[m].moduleName) \o <<":", " ">>
                           \o StringifyArray(componentsDataset[m].bucket)]
    IN IF componentsDataset = <<>> THEN <<"{", "}">>
       ELSE <<"{", NL>> \o JoinWith(members, <<",", NL>>) \o <<NL, "}">>

\* a failed parse: JSON.parse throws a SyntaxError
ParseError == [ok |-> FALSE, pos |-> 0]

\* the position of the first token at or after i that is not white space
RECURSIVE SkipWhitespace(_, _)
SkipWhitespace(text, i) ==
    IF i <= Len(text) /\ text[i] \in {NL, " "} THEN SkipWhitespace(text, i + 1) ELSE i

\* the characters of a JSON string from position i up to its closing quote
RECURSIVE ParseChars(_, _, _)
ParseChars(text, i, chars) ==
    IF i > Len(text) THEN ParseError
    ELSE IF text[i] = Quote THEN [ok |-> TRUE, value |-> chars, pos |-> i + 1]
    ELSE IF text[i] = Backslash
         THEN IF i + 1 > Len(text) THEN ParseError
              ELSE ParseChars(text, i + 2,
                              Append(chars, IF text[i + 1] = "n" THEN NL ELSE text[i + 1]))
    ELSE ParseChars(text, i + 1, Append(chars, text[i]))

\* a JSON string starting at position i
ParseString(text, i) ==
    IF i <= Len(text) /\ text[i] = Quote THEN ParseChars(text, i + 1, <<>>) ELSE ParseError

RECURSIVE ParseMembers(_, _, _)
\* the end of a member at position after: "}" closes the object, "," leads
\* to the next member
MembersEnd(text, after, obj) ==
    IF after > Len(text) THEN ParseError
    ELSE IF text[after] = "}" THEN [ok |-> TRUE, value |-> obj, pos |-> after + 1]
    ELSE IF text[after] = "," THEN ParseMembers(text, after + 1, obj)
    ELSE ParseError

\* the member with the given key, once its value val is read; a repeated
\* key keeps its last value
MemberValue(text, key, val, obj) ==
    IF ~val.ok THEN ParseError
    ELSE MembersEnd(text, SkipWhitespace(text, val.pos), (key :> val.value) @@ obj)

\* the member whose key is read, with the position where its colon must be
MemberColon(text, key, colon, obj) ==
    IF colon > Len(text) \/ text[colon] # ":" THEN ParseError
    ELSE MemberValue(text, key, ParseString(text, SkipWhitespace(text, colon + 1)), obj)

\* the member whose key has been parsed
MemberKey(text, key, obj) ==
    IF ~key.ok \/ Len(key.value) # 1 THEN ParseError
    ELSE MemberColon(text, key.value[1], SkipWhitespace(text, key.pos), obj)

\* the members of a JSON object of strings from position i on; obj holds the
\* members read so far
ParseMembers(text, i, obj) ==
    MemberKey(text, ParseString(text, SkipWhitespace(text, i)), obj)

\* the object whose first token after "{" is at position first
ObjectFrom(text, first) ==
    IF first <= Len(text) /\ text[first] = "}"
    THEN [ok |-> TRUE, value |-> <<>>, pos |-> first + 1]
    ELSE ParseMembers(text, first, <<>>)

\* a JSON object (a catalog entry) starting at position i
ParseObject(text, i) ==
    IF i > Len(text) \/ text[i] # "{" THEN ParseError
    ELSE ObjectFrom(text, SkipWhitespace(text, i + 1))

RECURSIVE ParseElements(_, _, _)
\* the end of an element at position after: "]" closes the array, ","
\* leads to the next element
ElementsEnd(text, after, elements) ==
    IF after > Len(text) THEN ParseError
    ELSE IF text[after] = "]" THEN [ok |-> TRUE, value |-> elements, pos |-> after + 1]
    ELSE IF text[after] = "," THEN ParseElements(text, after + 1, elements)
    ELSE ParseError

\* the element that has been parsed, appended to those read before
ElementRead(text, element, elements) ==
    IF ~element.ok THEN ParseError
    ELSE ElementsEnd(text, SkipWhitespace(text, element.pos),
                     Append(elements, element.value))

\* the elements of a JSON array of objects from position i on
ParseElements(text, i, elements) ==
    ElementRead(text, ParseObject(text, SkipWhitespace(text, i)), elements)

\* the array whose first token after "[" is at position first
ArrayFrom(text, first) ==
    IF first <= Len(text) /\ text[first] = "]"
    THEN [ok |-> TRUE, value |-> <<>>, pos |-> first + 1]
    ELSE ParseElements(text, first, <<>>)

\* a JSON array (a bucket) starting at position i
ParseArray(text, i) ==
    IF i > Len(text) \/ text[i] # "[" THEN ParseError
    ELSE ArrayFrom(text, SkipWhitespace(text, i + 1))

\* the catalog with the bucket of the module key set: a repeated key keeps
\* its first position and its last bucket
WithBucket(dataset, moduleName, bucket) ==
    IF BucketIndex(dataset, moduleName) = 0
    THEN Append(dataset, Bucket(moduleName, bucket))
    ELSE [dataset EXCEPT ![BucketIndex(dataset, moduleName)].bucket = bucket]

RECURSIVE ParseBuckets(_, _, _)
\* the end of a bucket at position after: "}" closes the catalog, "," leads
\* to the next module key
BucketsEnd(text, after, dataset) ==
    IF after > Len(text) THEN ParseError
    ELSE IF text[after] = "}" THEN [ok |-> TRUE, value |-> dataset, pos |-> after + 1]
    ELSE IF text[after] = "," THEN ParseBuckets(text, after + 1, dataset)
    ELSE ParseError

\* the bucket of the module key, once its array val is read
BucketValue(text, moduleName, val, dataset) ==
    IF ~val.ok THEN ParseError
    ELSE BucketsEnd(text, SkipWhitespace(text, val.pos),
                    WithBucket(dataset, moduleName, val.value))

\* the module key that is read, with the position where its colon must be
BucketColon(text, moduleName, colon, dataset) ==
    IF colon > Len(text) \/ text[colon] # ":" THEN ParseError
    ELSE BucketValue(text, moduleName,
                     ParseArray(text, SkipWhitespace(text, colon + 1)), dataset)

\* the module key that has been parsed
BucketKey(text, key, dataset) ==
    IF ~key.ok THEN ParseError
    ELSE BucketColon(text, key.value, SkipWhitespace(text, key.pos), dataset)

\* the module keys of the catalog object from position i on, each with its
\* bucket; dataset holds the buckets read so far
ParseBuckets(text, i, dataset) ==
    BucketKey(text, ParseString(text, SkipWhitespace(text, i)), dataset)

\* the catalog object whose first token after "{" is at position first
CatalogFrom(text, first) ==
    IF first <= Len(text) /\ text[first] = "}"
    THEN [ok |-> TRUE, value |-> <<>>, pos |-> first + 1]
    ELSE ParseBuckets(text, first, <<>>)

\* the parsed document, provided only white space follows it
WholeDocument(text, doc) ==
    IF doc.ok /\ SkipWhitespace(text, doc.pos) > Len(text) THEN doc ELSE ParseError

\* the catalog object starting at position start
CatalogAt(text, start) ==
    IF start > Len(text) \/ text[start] # "{" THEN ParseError
    ELSE WholeDocument(text, CatalogFrom(text, SkipWhitespace(text, start + 1)))

\* JSON.parse(datasetContent) of a catalog file: the parsed catalog, or the
\* parse error that is thrown
JsonParse(datasetContent) == CatalogAt(datasetContent, SkipWhitespace(datasetContent, 1))

\* the offset standing for `null`
NullOffset == -1

\* getOffset(swiftCode, filePath): the index of the last newline; without a
\* newline the promise-based fs has no appendFileSync, the catch yields null
GetOffset(swiftCode) ==
    IF Includes(swiftCode, <<NL>>)
    THEN Max(Occurrences(swiftCode, <<NL>>)) - 1
    ELSE NullOffset

(***************************************************************************)
(* State                                                                   *)
(***************************************************************************)
VARIABLES
    \* fields of the SwiftScanner instance (src/SwiftScanner.js)
    projectModulesList, componentsDataset, codebaseComponents,
    projectComponents, designSystemModules,
    \* codebaseComponents of a scanner of src/unnamed/part_000
    legacyCodebaseComponents,
    \* the environment: .build/debug.yaml, components_dataset.json,
    \* codebase_components.json, the paths whose read fails, `swift build`
    manifest, datasetFile, outputFile, unreadable, buildProcess,
    \* arguments of the scan command: the paths, --exclude and --design
    filePaths, excludedFolders, design,
    \* position of the scan action and of scanFilesRecursively
    pc, tasks, rootIndex, visiting, stack, savedPaths,
    \* the calls of extractComponents that process() started without awaiting
    \* them and that have not resumed yet
    extracting,
    \* what was written to the console
    console,
    \* the last method call made by the method harness
    call

scannerVars == <<projectModulesList, componentsDataset, codebaseComponents,
                 projectComponents, designSystemModules>>
envVars == <<manifest, datasetFile, outputFile, unreadable, buildProcess>>
argVars == <<filePaths, excludedFolders, design>>
walkVars == <<rootIndex, visiting, stack, savedPaths, extracting>>
vars == <<scannerVars, legacyCodebaseComponents, envVars, argVars, pc, tasks,
          walkVars, console, call>>

\* no path: scanFilesRecursively is not being entered
NoPath == <<>>
\* no method call made yet
NoCall == [op |-> "none"]

\* a line on the console
Log(msg, path) == [msg |-> msg, path |-> path]

IsDirectory(path) == path \in Directories
IsFile(path) == path \in SwiftFiles \cup {FileTxt}

\* the fields set by the constructor
Constructed ==
    /\ projectModulesList = <<>>
    /\ componentsDataset = <<>>
    /\ codebaseComponents = <<>>
    /\ projectComponents = <<>>
    /\ designSystemModules = Undefined
    /\ legacyCodebaseComponents = <<>>

(***************************************************************************)
(* The scan command (src/ScannerCLI.js): initialize                        *)
(***************************************************************************)
Manifests == {ManifestMissing, ManifestMalformed, ManifestAppLib, ManifestNoModules}
\* a catalog file cut short while it was written
CorruptDataset == <<"{", NL, Quote, "App", Quote, ":", " ", "[">>
DatasetFiles == {DatasetFile(FALSE, <<>>),
                 DatasetFile(TRUE, JsonStringify(CatalogTwo)),
                 DatasetFile(TRUE, CorruptDataset)}
UnreadableChoices == {{}, {FileA}, {DirA}}
RootChoices == {DirS, DirT, DirMid, FileA, DirQ}
ExcludeChoices == { <<>>, << <<"Sub">> >> }
\* cmd.design split at ',': no --design, or `--design app`
DesignChoices == { <<>>, << <<"app">> >> }

\* the sequences of one to MaxRoots root paths
RootLists == BoundedSeq(RootChoices, MaxRoots) \ {<<>>}

\* saveDataset(): the file after the write
SaveDataset == DatasetFile(TRUE, JsonStringify(componentsDataset))

Init ==
    /\ Constructed
    /\ manifest \in Manifests
    /\ datasetFile \in DatasetFiles
    /\ outputFile = <<>>
    /\ unreadable \in UnreadableChoices
    /\ buildProcess = "none"
    /\ filePaths \in RootLists
    /\ excludedFolders \in ExcludeChoices
    /\ design \in DesignChoices
    /\ pc = "initialize"
    /\ tasks = {}
    /\ rootIndex = 1
    /\ visiting = NoPath
    /\ stack = <<>>
    /\ savedPaths = <<>>
    /\ extracting = <<>>
    /\ console = <<>>
    /\ call = NoCall

\* initialize(): designSystemModules defaults to []; initiateBuild spawns
\* `swift build` and waits for its promise
InitiateBuild ==
    /\ pc = "initialize"
    /\ designSystemModules' = <<>>
    /\ buildProcess' = "running"
    /\ pc' = "initiateBuild"
    /\ UNCHANGED <<projectModulesList, componentsDataset, codebaseComponents,
                   projectComponents, legacyCodebaseComponents, manifest,
                   datasetFile, outputFile, unreadable, argVars, tasks,
                   walkVars, console, call>>

\* stdout 'data' containing "Building": the process is killed, the promise
\* resolves and initialize goes on to getDebugYaml
BuildPrintsBuilding ==
    /\ pc = "initiateBuild"
    /\ buildProcess = "running"
    /\ buildProcess' = "killed"
    /\ pc' = "getDebugYaml"
    /\ UNCHANGED <<scannerVars, legacyCodebaseComponents, manifest, datasetFile,
                   outputFile, unreadable, argVars, tasks, walkVars, console, call>>

\* the 'error' event of the child process: the promise rejects and the catch
\* of initialize saves the dataset
BuildError ==
    /\ pc = "initiateBuild"
    /\ buildProcess = "running"
    /\ buildProcess' = "failed"
    /\ datasetFile' = SaveDataset
    /\ console' = Append(console, Log("Error occurred during build", NoPath))
    /\ pc' = "checkDataset"
    /\ UNCHANGED <<scannerVars, legacyCodebaseComponents, manifest, outputFile,
                   unreadable, argVars, tasks, walkVars, call>>

\* `swift build` ends without having printed "Building": no listener is
\* registered for it, the promise stays pending
BuildExits ==
    /\ pc = "initiateBuild"
    /\ buildProcess = "running"
    /\ buildProcess' = "exited"
    /\ UNCHANGED <<scannerVars, legacyCodebaseComponents, manifest, datasetFile,
                   outputFile, unreadable, argVars, pc, tasks, walkVars,
                   console, call>>

\* initialize without its catch: a rejection of getDebugYaml would leave the
\* scan action through the rejected await
GetDebugYamlStepRethrows ==
    /\ pc = "getDebugYaml"
    /\ LET r == GetDebugYaml(manifest)
       IN IF r.rejected
          THEN /\ pc' = "aborted"
               /\ UNCHANGED projectModulesList
          ELSE /\ projectModulesList' = projectModulesList \o r.modules
               /\ pc' = "checkDataset"
    /\ UNCHANGED <<componentsDataset, codebaseComponents, projectComponents,
                   designSystemModules, legacyCodebaseComponents, envVars,
                   argVars, tasks, walkVars, console, call>>

\* await this.getDebugYaml() and, when it rejects, the catch of initialize:
\* a missing file (ENOENT) is logged by getDebugYaml only, any other error
\* also by initialize; both branches call saveDataset
GetDebugYamlStep ==
    /\ pc = "getDebugYaml"
    /\ LET r == GetDebugYaml(manifest)
       IN IF r.rejected
          THEN /\ datasetFile' = SaveDataset
               /\ console' = console \o
                      (IF manifest.status = "missing"
                       THEN << Log("Error reading file:", NoPath) >>
                       ELSE << Log("Error parsing YAML:", NoPath),
                               Log("Error loading dataset: ", NoPath) >>)
               /\ UNCHANGED projectModulesList
          ELSE /\ projectModulesList' = projectModulesList \o r.modules
               /\ UNCHANGED <<datasetFile, console>>
    /\ pc' = "checkDataset"
    /\ UNCHANGED <<componentsDataset, codebaseComponents, projectComponents,
                   designSystemModules, legacyCodebaseComponents, manifest,
                   outputFile, unreadable, buildProcess, argVars, tasks,
                   walkVars, call>>

(***************************************************************************)
(* The scan command: the catalog                                           *)
(***************************************************************************)
\* !fs.existsSync(datasetFilePath): generateDataset starts one task per module
StartGenerateDataset ==
    /\ pc = "checkDataset"
    /\ ~datasetFile.exists
    /\ tasks' = DOMAIN projectModulesList
    /\ pc' = "generateDataset"
    /\ UNCHANGED <<scannerVars, legacyCodebaseComponents, envVars, argVars,
                   walkVars, console, call>>

\* a task that hands the entries read so far to updateDataset although the
\* oracle output broke off
GenerateTaskKeepsPartial(i, oracleAnswers) ==
    /\ pc = "generateDataset"
    /\ i \in tasks
    /\ LET module == projectModulesList[i]
           offset == GetOffset(FileContent(module.originalPath))
       IN IF \/ module.originalPath \in unreadable
             \/ offset = NullOffset
          THEN /\ console' = Append(console, Log("Error generating dataset for module",
                                                 module.name))
               /\ UNCHANGED componentsDataset
          ELSE IF ~oracleAnswers
          THEN /\ console' = Append(console, Log("Error generating dataset for module",
                                                 module.name))
               /\ componentsDataset' =
                      UpdateDataset(componentsDataset,
                                    SubSeq(Completions(module.name), 1, 1), 1)
          ELSE /\ componentsDataset' =
                      UpdateDataset(componentsDataset, Completions(module.name), 1)
               /\ UNCHANGED console
    /\ tasks' = tasks \ {i}
    /\ UNCHANGED <<projectModulesList, codebaseComponents, projectComponents,
                   designSystemModules, legacyCodebaseComponents, envVars,
                   argVars, pc, walkVars, call>>

\* one task of generateDataset after its readFile settled; the tasks settle
\* in any order.  The completion oracle answers or fails.
GenerateTask(i, oracleAnswers) ==
    /\ pc = "generateDataset"
    /\ i \in tasks
    /\ LET module == projectModulesList[i]
           offset == GetOffset(FileContent(module.originalPath))
       IN IF \/ module.originalPath \in unreadable
             \/ offset = NullOffset
             \/ ~oracleAnswers
          THEN /\ console' = Append(console, Log("Error generating dataset for module",
                                                 module.name))
               /\ UNCHANGED componentsDataset
          ELSE /\ componentsDataset' =
                      UpdateDataset(componentsDataset, Completions(module.name), 1)
               /\ UNCHANGED console
    /\ tasks' = tasks \ {i}
    /\ UNCHANGED <<projectModulesList, codebaseComponents, projectComponents,
                   designSystemModules, legacyCodebaseComponents, envVars,
                   argVars, pc, walkVars, call>>

\* Promise.all(tasks) settled; await scanner.saveDataset()
FinishGenerateDataset ==
    /\ pc = "generateDataset"
    /\ tasks = {}
    /\ datasetFile' = SaveDataset
    /\ pc' = "scan"
    /\ UNCHANGED <<scannerVars, legacyCodebaseComponents, manifest, outputFile,
                   unreadable, buildProcess, argVars, tasks, walkVars, console, call>>

\* loadDataset(): the parsed file becomes componentsDataset; a file that
\* does not parse is logged and componentsDataset keeps its value
LoadDataset ==
    /\ pc = "checkDataset"
    /\ datasetFile.exists
    /\ LET dataset == JsonParse(datasetFile.content)
       IN IF dataset.ok
          THEN /\ componentsDataset' = dataset.value
               /\ UNCHANGED console
          ELSE /\ console' = Append(console, Log("Error loading dataset:", NoPath))
               /\ UNCHANGED componentsDataset
    /\ pc' = "scan"
    /\ UNCHANGED <<projectModulesList, codebaseComponents, projectComponents,
                   designSystemModules, legacyCodebaseComponents, envVars,
                   argVars, tasks, walkVars, call>>

(***************************************************************************)
(* The scan command: scanFilesRecursively and the per-file pipeline        *)
(***************************************************************************)
\* the scanner fields read by extractMetadata, with the file being processed
Ctx(filePath, fileContent) ==
    [projectModulesList  |-> projectModulesList,
     designSystemModules |-> designSystemModules,
     filePath            |-> filePath,
     fileContent         |-> fileContent]

\* extractComponents(filePath, fileContent) once getStructureFromFile has
\* answered: flatten the structure and match it.  fileContent is what
\* findLineAndColumn reads from the file at that time.
ExtractComponents(filePath, fileContent) ==
    ProcessComponents([codebaseComponents |-> codebaseComponents,
                       projectComponents  |-> projectComponents],
                      componentsDataset,
                      ExtractComponentsFromStructure(FileStructure(filePath)),
                      Ctx(filePath, fileContent))

\* for (const filePath of filePaths): scanFilesRecursively is called on the
\* next root path
ScanNextPath ==
    /\ pc = "scan"
    /\ rootIndex <= Len(filePaths)
    /\ visiting' = filePaths[rootIndex]
    /\ pc' = "walk"
    /\ UNCHANGED <<scannerVars, legacyCodebaseComponents, envVars, argVars,
                   tasks, rootIndex, stack, savedPaths, console, extracting,
                   call>>

\* a failing fs.stat whose error is not caught by the call it happens in and
\* ends the calls on the directories above as well
StatFailsUnwinds ==
    /\ pc = "walk"
    /\ visiting # NoPath
    /\ ~IsDirectory(visiting) /\ ~IsFile(visiting)
    /\ console' = Append(console, Log("Error scanning directory", visiting))
    /\ visiting' = NoPath
    /\ stack' = <<>>
    /\ UNCHANGED <<scannerVars, legacyCodebaseComponents, envVars, argVars,
                   pc, tasks, rootIndex, savedPaths, extracting,
                   call>>

\* fs.stat throws for a path that does not exist; the catch logs it
StatFails ==
    /\ pc = "walk"
    /\ visiting # NoPath
    /\ ~IsDirectory(visiting) /\ ~IsFile(visiting)
    /\ console' = Append(console, Log("Error scanning directory", visiting))
    /\ visiting' = NoPath
    /\ UNCHANGED <<scannerVars, legacyCodebaseComponents, envVars, argVars,
                   pc, tasks, rootIndex, stack, savedPaths, extracting,
                   call>>

\* a directory that validPath turns down: the module paths are printed and
\* the call returns
RejectDirectory ==
    /\ pc = "walk"
    /\ IsDirectory(visiting)
    /\ ~ValidPath(projectModulesList, visiting)
    /\ console' = Append(console,
                         Log("Directory path does not include any module path", visiting))
    /\ visiting' = NoPath
    /\ UNCHANGED <<scannerVars, legacyCodebaseComponents, envVars, argVars,
                   pc, tasks, rootIndex, stack, savedPaths, extracting,
                   call>>

\* a directory that validPath lets through: fs.readdir lists it, or throws
EnterDirectory ==
    /\ pc = "walk"
    /\ IsDirectory(visiting)
    /\ ValidPath(projectModulesList, visiting)
    /\ IF visiting \in unreadable
       THEN /\ console' = Append(console, Log("Error scanning directory", visiting))
            /\ UNCHANGED stack
       ELSE /\ stack' = Append(stack, [path  |-> visiting,
                                       files |-> ReadDir(visiting),
                                       next  |-> 1])
            /\ UNCHANGED console
    /\ visiting' = NoPath
    /\ UNCHANGED <<scannerVars, legacyCodebaseComponents, envVars, argVars,
                   pc, tasks, rootIndex, savedPaths, extracting,
                   call>>

\* a file whose name does not end in ".swift"
SkipFile ==
    /\ pc = "walk"
    /\ IsFile(visiting)
    /\ ~EndsWith(visiting, <<".swift">>)
    /\ visiting' = NoPath
    /\ UNCHANGED <<scannerVars, legacyCodebaseComponents, envVars, argVars,
                   pc, tasks, rootIndex, stack, savedPaths, console, extracting,
                   call>>

\* extractComponentsFromFile(filePath): readFile, then process(), which
\* calls extractComponents without awaiting it.  extractComponents runs up
\* to its await of getStructureFromFile (the structural oracle has been run
\* by execSync and has answered or failed) and stays suspended there, while
\* extractComponentsFromFile returns to the walker.
ExtractComponentsFromFile(structureAnswers) ==
    /\ pc = "walk"
    /\ IsFile(visiting)
    /\ EndsWith(visiting, <<".swift">>)
    /\ IF visiting \in unreadable
       THEN /\ console' = console \o << Log("scanning file", visiting),
                                        Log("Error scanning Swift file", visiting) >>
            /\ UNCHANGED extracting
       ELSE /\ console' = Append(console, Log("scanning file", visiting))
            /\ extracting' = Append(extracting,
                                    [filePath         |-> visiting,
                                     structureAnswers |-> structureAnswers])
    /\ visiting' = NoPath
    /\ UNCHANGED <<scannerVars, legacyCodebaseComponents, envVars, argVars,
                   pc, tasks, rootIndex, stack, savedPaths, call>>

\* extractComponents without its catch: the rejection of
\* getStructureFromFile is left unhandled and ends the command
ExtractComponentsResumesUncaught(stillReadable) ==
    /\ pc = "walk"
    /\ extracting # <<>>
    /\ LET filePath == extracting[1].filePath
       IN IF ~extracting[1].structureAnswers
          THEN /\ pc' = "aborted"
               /\ UNCHANGED <<codebaseComponents, projectComponents>>
          ELSE LET r == ExtractComponents(filePath,
                                          IF stillReadable THEN FileContent(filePath)
                                          ELSE Unreadable)
               IN /\ codebaseComponents' = r.codebaseComponents
                  /\ projectComponents' = r.projectComponents
                  /\ UNCHANGED pc
    /\ extracting' = Tail(extracting)
    /\ UNCHANGED <<projectModulesList, componentsDataset, designSystemModules,
                   legacyCodebaseComponents, envVars, argVars, tasks,
                   rootIndex, visiting, stack, savedPaths, console, call>>

\* the suspended extractComponents resumes, before the caller of
\* scanFilesRecursively does: the rejection of getStructureFromFile is
\* caught and logged, an answer goes through extractComponentsFromStructure
\* and processComponents.  The file may have become unreadable by the time
\* findLineAndColumn reads it again.
ExtractComponentsResumes(stillReadable) ==
    /\ pc = "walk"
    /\ extracting # <<>>
    /\ LET filePath == extracting[1].filePath
       IN IF ~extracting[1].structureAnswers
          THEN /\ console' = Append(console,
                                    Log("Error extracting components from file", filePath))
               /\ UNCHANGED <<codebaseComponents, projectComponents>>
          ELSE LET r == ExtractComponents(filePath,
                                          IF stillReadable THEN FileContent(filePath)
                                          ELSE Unreadable)
               IN /\ codebaseComponents' = r.codebaseComponents
                  /\ projectComponents' = r.projectComponents
                  /\ UNCHANGED console
    /\ extracting' = Tail(extracting)
    /\ UNCHANGED <<projectModulesList, componentsDataset, designSystemModules,
                   legacyCodebaseComponents, envVars, argVars, pc, tasks,
                   rootIndex, visiting, stack, savedPaths, call>>

\* the for-loop with the exclusion applied to the entries of the root
\* directory only
NextEntryTopLevelOnly ==
    /\ pc = "walk"
    /\ visiting = NoPath
    /\ extracting = <<>>
    /\ stack # <<>>
    /\ LET top == stack[Len(stack)]
       IN /\ top.next <= Len(top.files)
          /\ stack' = [stack EXCEPT ![Len(stack)].next = @ + 1]
          /\ visiting' =
                 IF /\ Len(stack) = 1
                    /\ \E e \in DOMAIN excludedFolders :
                           excludedFolders[e] = top.files[top.next]
                 THEN NoPath
                 ELSE Join(top.path, top.files[top.next])
    /\ UNCHANGED <<scannerVars, legacyCodebaseComponents, envVars, argVars,
                   pc, tasks, rootIndex, savedPaths, console, extracting,
                   call>>

\* for (const file of files): the next entry of the directory on top of the
\* stack is skipped when excluded, scanned otherwise
NextEntry ==
    /\ pc = "walk"
    /\ visiting = NoPath
    /\ extracting = <<>>
    /\ stack # <<>>
    /\ LET top == stack[Len(stack)]
       IN /\ top.next <= Len(top.files)
          /\ stack' = [stack EXCEPT ![Len(stack)].next = @ + 1]
          /\ visiting' =
                 IF \E e \in DOMAIN excludedFolders :
                        excludedFolders[e] = top.files[top.next]
                 THEN NoPath
                 ELSE Join(top.path, top.files[top.next])
    /\ UNCHANGED <<scannerVars, legacyCodebaseComponents, envVars, argVars,
                   pc, tasks, rootIndex, savedPaths, console, extracting,
                   call>>

\* the loop over a directory is over: the call returns to its caller
LeaveDirectory ==
    /\ pc = "walk"
    /\ visiting = NoPath
    /\ extracting = <<>>
    /\ stack # <<>>
    /\ stack[Len(stack)].next > Len(stack[Len(stack)].files)
    /\ stack' = SubSeq(stack, 1, Len(stack) - 1)
    /\ UNCHANGED <<scannerVars, legacyCodebaseComponents, envVars, argVars,
                   pc, tasks, rootIndex, visiting, savedPaths, console, extracting,
                   call>>

\* scanFilesRecursively returned for a root path: savedPaths.push(...)
FinishPath ==
    /\ pc = "walk"
    /\ visiting = NoPath
    /\ extracting = <<>>
    /\ stack = <<>>
    /\ savedPaths' = Append(savedPaths, <<"codebase_components", ".json">>)
    /\ rootIndex' = rootIndex + 1
    /\ pc' = "scan"
    /\ UNCHANGED <<scannerVars, legacyCodebaseComponents, envVars, argVars,
                   tasks, visiting, stack, console, extracting,
                   call>>

\* scanner.saveCodebaseComponents() after the loop
SaveCodebaseComponents ==
    /\ pc = "scan"
    /\ rootIndex > Len(filePaths)
    /\ outputFile' = codebaseComponents
    /\ pc' = "done"
    /\ UNCHANGED <<scannerVars, legacyCodebaseComponents, manifest, datasetFile,
                   unreadable, buildProcess, argVars, tasks, walkVars, console, call>>

Next ==
    \/ InitiateBuild
    \/ BuildPrintsBuilding
    \/ BuildError
    \/ BuildExits
    \/ GetDebugYamlStep
    \/ StartGenerateDataset
    \/ \E i \in DOMAIN projectModulesList, oracleAnswers \in BOOLEAN :
           GenerateTask(i, oracleAnswers)
    \/ FinishGenerateDataset
    \/ LoadDataset
    \/ ScanNextPath
    \/ StatFails
    \/ RejectDirectory
    \/ EnterDirectory
    \/ SkipFile
    \/ \E structureAnswers \in BOOLEAN : ExtractComponentsFromFile(structureAnswers)
    \/ \E stillReadable \in BOOLEAN : ExtractComponentsResumes(stillReadable)
    \/ NextEntry
    \/ LeaveDirectory
    \/ FinishPath
    \/ SaveCodebaseComponents

Spec == Init /\ [][Next]_vars

\* the scan command under a scheduler that runs every step that stays possible
LiveSpec == Spec /\ WF_vars(Next)

(***************************************************************************)
(* Single calls of findLineAndColumn and processComponents on a scanner    *)
(* that has just been constructed and initialized: the inputs are drawn by *)
(* FnInit, the actions apply the method.                                   *)
(***************************************************************************)
KindElemExpr == SwiftPrefix \o <<"structure", ".", "elem", ".", "expr">>

\* 'a\nbb\nccc'
ContentABC == <<"a", NL, "b", "b", NL, "c", "c", "c">>

\* file contents handed to findLineAndColumn
Contents == BoundedSeq({"x", NL}, MaxContentLen) \cup {ContentABC}

\* names of candidates and of catalog entries; '' stands for a missing name
CandidateNames == {NameFoo, NameFooBar, NameFood, NameFooBlank, NameParen, <<>>}
EntryNames == {NameFoo, NameFooBar, NameFood, NameParen, <<>>}
CandidateKinds == {KindExprCall, KindFunctionFree, KindClass, KindElemExpr}
EntryKinds == {KindFunctionFree, KindClass, KindExprCall}

\* a second entry of module App named like EntryAppFoo
EntryAppFooClass == Entry(NameFoo, KindClass, ModApp, <<"class", "doc">>)
EntryAppFooOther == Entry(NameFoo, KindFunctionFree, ModApp, <<"other", "doc">>)

\* catalogs with several entries that can satisfy one candidate
CatalogsWithRivals ==
    { CatalogTwo,
      << Bucket(ModApp, <<EntryAppFooClass, EntryAppFoo, EntryAppFooOther>>) >>,
      << Bucket(ModApp, <<EntryAppFooClass>>), Bucket(ModLib, <<EntryLibFoo>>) >> }

\* the file the candidates of a single processComponents call lie in
FnFile == FileT

KindComment == SwiftPrefix \o <<"syntaxtype", ".", "comment">>

\* the kinds of the inner nodes and of the innermost nodes of the drawn trees
InnerKinds == {KindExprCall, KindStmtBrace}
LeafKinds == {KindClass, KindElemExpr, KindComment}

\* the node with key.offset set to `offset` and those of its j-th children to
\* 3 * offset + j, so that every node of a tree has an offset of its own
RECURSIVE Numbered(_, _)
Numbered(node, offset) ==
    [node EXCEPT !.offset = offset,
                 !.substructure = [j \in DOMAIN node.substructure |->
                                      Numbered(node.substructure[j], 3 * offset + j)]]

\* structure trees all of whose nodes below the root carry a key.kind: up to
\* two nodes below the root, up to two below each of them, up to one below
\* each of those
InnermostNodes == {Node(NameFoo, kind, 0, <<>>) : kind \in LeafKinds}
LowerNodes ==
    {Node(NameFoo, kind, 0, substructure) :
        kind \in InnerKinds, substructure \in BoundedSeq(InnermostNodes, 1)}
UpperNodes ==
    {Node(NameFoo, kind, 0, substructure) :
        kind \in InnerKinds, substructure \in BoundedSeq(LowerNodes, 2)}
StructureTrees ==
    {Numbered(Node(NoName, Undefined, 0, substructure), 0) :
        substructure \in BoundedSeq(UpperNodes, 2)}

\* candidates that all match the entry 'foo(bar:)' of a module: a call and a
\* declaration, each with and without its parameter labels
PairCandidates == {Node(NameFoo, KindExprCall, 2, <<>>),
                   Node(NameFooBar, KindExprCall, 2, <<>>),
                   Node(NameFoo, KindFunctionFree, 0, <<>>),
                   Node(NameFooBar, KindFunctionFree, 0, <<>>)}

FnInit ==
    /\ Constructed
    /\ manifest = ManifestMissing
    /\ datasetFile = DatasetFile(FALSE, <<>>)
    /\ outputFile = <<>>
    /\ unreadable = {}
    /\ buildProcess = "none"
    /\ filePaths = <<>>
    /\ excludedFolders = <<>>
    /\ design = <<>>
    /\ pc = "fn"
    /\ tasks = {}
    /\ rootIndex = 1
    /\ visiting = NoPath
    /\ stack = <<>>
    /\ savedPaths = <<>>
    /\ extracting = <<>>
    /\ console = <<>>
    /\ \/ \E fileContent \in Contents :
            \E offset \in 0..Len(fileContent) :
                call = [op |-> "findLineAndColumn", done |-> FALSE,
                        fileContent |-> fileContent, offset |-> offset,
                        result |-> Null]
       \/ \E name \in CandidateNames, kind \in CandidateKinds :
            \/ \E entryName \in EntryNames, entryKind \in EntryKinds :
                 call = [op |-> "processComponents", done |-> FALSE,
                         component |-> Node(name, kind, 1, <<>>),
                         dataset |-> << Bucket(ModApp,
                                          << Entry(entryName, entryKind, ModApp,
                                                   <<"doc">>) >>) >>]
            \/ \E dataset \in CatalogsWithRivals :
                 call = [op |-> "processComponents", done |-> FALSE,
                         component |-> Node(name, kind, 1, <<>>),
                         dataset |-> dataset]
       \/ \E fileStructure \in StructureTrees :
            call = [op |-> "extractComponentsFromStructure", done |-> FALSE,
                    fileStructure |-> fileStructure, result |-> <<>>]
       \/ \E first \in PairCandidates, second \in PairCandidates :
            \E dataset \in {CatalogApp, CatalogTwo} :
                call = [op |-> "processComponentsOfFile", done |-> FALSE,
                        components |-> <<first, second>>,
                        dataset |-> dataset]

\* findLineAndColumn(fileName, offset) on the drawn content
FindLineAndColumnCall ==
    /\ pc = "fn"
    /\ call.op = "findLineAndColumn"
    /\ ~call.done
    /\ call' = [call EXCEPT !.done = TRUE,
                            !.result = FindLineAndColumn(call.fileContent, call.offset)]
    /\ UNCHANGED <<scannerVars, legacyCodebaseComponents, envVars, argVars, pc,
                   tasks, walkVars, console>>

\* processComponents([component], filePath, fileContent) with the drawn
\* catalog in componentsDataset
ProcessComponentsCall ==
    /\ pc = "fn"
    /\ call.op = "processComponents"
    /\ ~call.done
    /\ LET r == ProcessComponents([codebaseComponents |-> codebaseComponents,
                                   projectComponents  |-> projectComponents],
                                  call.dataset, <<call.component>>,
                                  [projectModulesList  |-> projectModulesList,
                                   designSystemModules |-> <<>>,
                                   filePath            |-> FnFile,
                                   fileContent         |-> FileContent(FnFile)])
       IN /\ codebaseComponents' = r.codebaseComponents
          /\ projectComponents' = r.projectComponents
    /\ componentsDataset' = call.dataset
    /\ designSystemModules' = <<>>
    /\ call' = [call EXCEPT !.done = TRUE]
    /\ UNCHANGED <<projectModulesList, legacyCodebaseComponents, envVars,
                   argVars, pc, tasks, walkVars, console>>

\* processComponents([first, second], filePath, fileContent): the candidates
\* of one file, with the drawn catalog in componentsDataset
ProcessComponentsOfFileCall ==
    /\ pc = "fn"
    /\ call.op = "processComponentsOfFile"
    /\ ~call.done
    /\ LET r == ProcessComponents([codebaseComponents |-> codebaseComponents,
                                   projectComponents  |-> projectComponents],
                                  call.dataset, call.components,
                                  [projectModulesList  |-> projectModulesList,
                                   designSystemModules |-> <<>>,
                                   filePath            |-> FnFile,
                                   fileContent         |-> FileContent(FnFile)])
       IN /\ codebaseComponents' = r.codebaseComponents
          /\ projectComponents' = r.projectComponents
    /\ componentsDataset' = call.dataset
    /\ designSystemModules' = <<>>
    /\ call' = [call EXCEPT !.done = TRUE]
    /\ UNCHANGED <<projectModulesList, legacyCodebaseComponents, envVars,
                   argVars, pc, tasks, walkVars, console>>

\* extractComponentsFromStructure(fileStructure) on the drawn tree
ExtractComponentsFromStructureCall ==
    /\ pc = "fn"
    /\ call.op = "extractComponentsFromStructure"
    /\ ~call.done
    /\ call' = [call EXCEPT !.done = TRUE,
                            !.result = ExtractComponentsFromStructure(call.fileStructure)]
    /\ UNCHANGED <<scannerVars, legacyCodebaseComponents, envVars, argVars, pc,
                   tasks, walkVars, console>>

FnNext ==
    \/ FindLineAndColumnCall
    \/ ProcessComponentsCall
    \/ ProcessComponentsOfFileCall
    \/ ExtractComponentsFromStructureCall

FnSpec == FnInit /\ [][FnNext]_vars

(***************************************************************************)
(* Sequences of method calls on one scanner instance that has been         *)
(* constructed and initialized: extractMetadata (both revisions) and       *)
(* extractComponentsFromFile, up to MaxCalls calls.  `call` is the list of *)
(* the calls made, each with the codebaseComponents it left behind.        *)
(***************************************************************************)
ApiComponents == {Node(NameFoo, KindExprCall, 2, <<>>),
                  Node(NameFooBar, KindFunctionFree, 1, <<>>)}
ApiEntries == {EntryAppFoo, EntryLibFoo}
ApiFiles == {FileA, FileT}
ApiModuleLists == {<<>>, GetDebugYaml(ManifestAppLib).modules}
ApiCatalogs == {CatalogApp, CatalogTwo}

ApiInit ==
    /\ projectModulesList \in ApiModuleLists
    /\ componentsDataset \in ApiCatalogs
    /\ codebaseComponents = <<>>
    /\ projectComponents = <<>>
    /\ designSystemModules = <<>>
    /\ legacyCodebaseComponents = <<>>
    /\ manifest = ManifestMissing
    /\ datasetFile = DatasetFile(FALSE, <<>>)
    /\ outputFile = <<>>
    /\ unreadable = {}
    /\ buildProcess = "none"
    /\ filePaths = <<>>
    /\ excludedFolders = <<>>
    /\ design = <<>>
    /\ pc = "api"
    /\ tasks = {}
    /\ rootIndex = 1
    /\ visiting = NoPath
    /\ stack = <<>>
    /\ savedPaths = <<>>
    /\ extracting = <<>>
    /\ console = <<>>
    /\ call = <<>>

\* what readFileSync yields for filePath
ReadFileSync(filePath, readable) ==
    IF readable THEN FileContent(filePath) ELSE Unreadable

\* scanner.extractMetadata(component, existingComponent, fileContent, filePath)
ExtractMetadataCall(component, existingComponent, filePath, readable) ==
    /\ pc = "api"
    /\ Len(call) < MaxCalls
    /\ LET r == ExtractMetadata(codebaseComponents, projectModulesList,
                                designSystemModules, component, existingComponent,
                                filePath, ReadFileSync(filePath, readable))
       IN /\ codebaseComponents' = r.codebaseComponents
          /\ call' = Append(call, [op        |-> "extractMetadata",
                                   filePath  |-> filePath,
                                   completed |-> readable,
                                   id        |-> MetadataId(component, existingComponent),
                                   codebaseComponents |-> r.codebaseComponents,
                                   projectComponents  |-> projectComponents])
    /\ UNCHANGED <<projectModulesList, componentsDataset, projectComponents,
                   designSystemModules, legacyCodebaseComponents, envVars,
                   argVars, pc, tasks, walkVars, console>>

\* extractMetadata of the scanner of src/unnamed/part_000
LegacyExtractMetadataCall(component, existingComponent, filePath, readable) ==
    /\ pc = "api"
    /\ Len(call) < MaxCalls
    /\ LET r == LegacyExtractMetadata(legacyCodebaseComponents, projectModulesList,
                                      designSystemModules, component,
                                      existingComponent, filePath,
                                      ReadFileSync(filePath, readable))
       IN /\ legacyCodebaseComponents' = r.codebaseComponents
          /\ call' = Append(call, [op        |-> "legacyExtractMetadata",
                                   filePath  |-> filePath,
                                   completed |-> readable,
                                   id        |-> MetadataId(component, existingComponent),
                                   codebaseComponents |-> codebaseComponents,
                                   projectComponents  |-> projectComponents])
    /\ UNCHANGED <<scannerVars, envVars, argVars, pc, tasks, walkVars, console>>

\* scanner.extractComponentsFromFile(filePath) with the pipeline it starts,
\* the caller letting that pipeline run to its end before the next call
ExtractComponentsFromFileCall(filePath, structureAnswers, stillReadable) ==
    /\ pc = "api"
    /\ Len(call) < MaxCalls
    /\ LET r == IF structureAnswers
                THEN ExtractComponents(filePath, ReadFileSync(filePath, stillReadable))
                ELSE [codebaseComponents |-> codebaseComponents,
                      projectComponents  |-> projectComponents]
       IN /\ codebaseComponents' = r.codebaseComponents
          /\ projectComponents' = r.projectComponents
          /\ call' = Append(call, [op        |-> "extractComponentsFromFile",
                                   filePath  |-> filePath,
                                   completed |-> structureAnswers /\ stillReadable,
                                   id        |-> <<>>,
                                   codebaseComponents |-> r.codebaseComponents,
                                   projectComponents  |-> r.projectComponents])
    /\ UNCHANGED <<projectModulesList, componentsDataset, designSystemModules,
                   legacyCodebaseComponents, envVars, argVars, pc, tasks,
                   walkVars, console>>

ApiNext ==
    \/ \E component \in ApiComponents, existingComponent \in ApiEntries,
          filePath \in ApiFiles, readable \in BOOLEAN :
           \/ ExtractMetadataCall(component, existingComponent, filePath, readable)
           \/ LegacyExtractMetadataCall(component, existingComponent, filePath, readable)
    \/ \E filePath \in SwiftFiles, structureAnswers \in BOOLEAN,
          stillReadable \in BOOLEAN :
           ExtractComponentsFromFileCall(filePath, structureAnswers, stillReadable)

ApiSpec == ApiInit /\ [][ApiNext]_vars

(***************************************************************************)
(* Calls of initialize, saveDataset and loadDataset on one scanner whose    *)
(* catalog has been filled by updateDataset: the topology and the catalog  *)
(* file, up to MaxCalls calls.  `call` is the list of the calls made, each *)
(* with the module list and the catalog it left behind.                    *)
(***************************************************************************)
\* a project checked out below a directory named `w.build`
FileW == <<"/", "w", ".build", "/", "A", "/", "a", ".swift">>
\* an object file of the executable product of module App
FileExe == <<"/", "p", "/", ".build", "/", "debug", "/", "App", ".build", "/", "a", ".o">>
KeyAppExe == <<"C", ".", "App", "-", "debug", ".", "exe">>

\* the sources of module App lie below /w.build
ManifestDotBuild ==
    [status |-> "present",
     commands |-> << Command(KeyPackageStructure, << <<"/", "w", ".build">> >>),
                     Command(KeyApp, <<FileW>>) >>]
\* module App is compiled and linked: two commands carry its name
ManifestAppExe ==
    [status |-> "present",
     commands |-> << Command(KeyPackageStructure, <<DirP>>),
                     Command(KeyApp, <<FileA>>),
                     Command(KeyAppExe, <<FileExe>>) >>]

SetupManifests == {ManifestMissing, ManifestMalformed, ManifestAppLib,
                   ManifestNoModules, ManifestDotBuild, ManifestAppExe}

\* an entry whose documentation holds quotes, a line break and a backslash
EntryAppQuoted ==
    Entry(NameFooBar, KindFunctionFree, ModApp,
          <<"say", " ", Quote, "x", Quote, NL, Backslash, "n">>)
CatalogQuoted == << Bucket(ModSwift, <<EntryPrint>>),
                    Bucket(ModApp, <<EntryAppQuoted, EntryAppFoo>>) >>
SetupCatalogs == {CatalogEmpty, CatalogTwo, CatalogQuoted}

SetupInit ==
    /\ projectModulesList = <<>>
    /\ componentsDataset \in SetupCatalogs
    /\ codebaseComponents = <<>>
    /\ projectComponents = <<>>
    /\ designSystemModules = Undefined
    /\ legacyCodebaseComponents = <<>>
    /\ manifest \in SetupManifests
    /\ datasetFile \in DatasetFiles
    /\ outputFile = <<>>
    /\ unreadable = {}
    /\ buildProcess = "none"
    /\ filePaths = <<>>
    /\ excludedFolders = <<>>
    /\ design = <<>>
    /\ pc = "setup"
    /\ tasks = {}
    /\ rootIndex = 1
    /\ visiting = NoPath
    /\ stack = <<>>
    /\ savedPaths = <<>>
    /\ extracting = <<>>
    /\ console = <<>>
    /\ call = <<>>

\* the record of one call in `call`
Called(op, ok, modules, dataset) ==
    [op |-> op, ok |-> ok, projectModulesList |-> modules, componentsDataset |-> dataset]

\* initialize(designSystemModules) with a build that prints "Building" or
\* fails to start; a build that does neither never lets the call return
InitializeCall(designSystemModulesArg, buildStarts) ==
    /\ pc = "setup"
    /\ Len(call) < MaxCalls
    /\ designSystemModules' = designSystemModulesArg
    /\ LET r == GetDebugYaml(manifest)
       IN IF ~buildStarts \/ r.rejected
          THEN /\ datasetFile' = SaveDataset
               /\ console' = Append(console,
                                    IF ~buildStarts
                                    THEN Log("Error occurred during build", NoPath)
                                    ELSE IF manifest.status = "missing"
                                    THEN Log("Error reading file:", NoPath)
                                    ELSE Log("Error parsing YAML:", NoPath))
               /\ call' = Append(call, Called("initialize", FALSE, projectModulesList,
                                              componentsDataset))
               /\ UNCHANGED projectModulesList
          ELSE /\ projectModulesList' = projectModulesList \o r.modules
               /\ call' = Append(call, Called("initialize", TRUE,
                                              projectModulesList \o r.modules,
                                              componentsDataset))
               /\ UNCHANGED <<datasetFile, console>>
    /\ UNCHANGED <<componentsDataset, codebaseComponents, projectComponents,
                   legacyCodebaseComponents, manifest, outputFile, unreadable,
                   buildProcess, argVars, pc, tasks, walkVars>>

\* saveDataset()
SaveDatasetCall ==
    /\ pc = "setup"
    /\ Len(call) < MaxCalls
    /\ datasetFile' = SaveDataset
    /\ call' = Append(call, Called("saveDataset", TRUE, projectModulesList,
                                   componentsDataset))
    /\ UNCHANGED <<scannerVars, legacyCodebaseComponents, manifest, outputFile,
                   unreadable, buildProcess, argVars, pc, tasks, walkVars, console>>

\* loadDataset(): readFile fails when the file does not exist, JSON.parse
\* throws when it does not parse; both are logged and nothing is assigned
LoadDatasetCall ==
    /\ pc = "setup"
    /\ Len(call) < MaxCalls
    /\ LET dataset == IF datasetFile.exists THEN JsonParse(datasetFile.content)
                      ELSE ParseError
       IN IF dataset.ok
          THEN /\ componentsDataset' = dataset.value
               /\ call' = Append(call, Called("loadDataset", TRUE, projectModulesList,
                                              dataset.value))
               /\ UNCHANGED console
          ELSE /\ console' = Append(console, Log("Error loading dataset:", NoPath))
               /\ call' = Append(call, Called("loadDataset", FALSE, projectModulesList,
                                              componentsDataset))
               /\ UNCHANGED componentsDataset
    /\ UNCHANGED <<projectModulesList, codebaseComponents, projectComponents,
                   designSystemModules, legacyCodebaseComponents, envVars,
                   argVars, pc, tasks, walkVars>>

SetupNext ==
    \/ \E designSystemModulesArg \in DesignChoices, buildStarts \in BOOLEAN :
           InitializeCall(designSystemModulesArg, buildStarts)
    \/ SaveDatasetCall
    \/ LoadDatasetCall

SetupSpec == SetupInit /\ [][SetupNext]_vars

(***************************************************************************)
(* Properties                                                              *)
(***************************************************************************)
\* the elements of a sequence
Range(seq) == {seq[i] : i \in DOMAIN seq}

\* the sum of the values of an object used as a map
RECURSIVE SumOf(_)
SumOf(obj) ==
    IF DOMAIN obj = {}
    THEN 0
    ELSE LET k == CHOOSE x \in DOMAIN obj : TRUE
         IN obj[k] + SumOf([x \in (DOMAIN obj) \ {k} |-> obj[x]])

\* path `below` is `above` or lies under it
IsPathPrefix(above, below) ==
    /\ StartsWith(below, above)
    /\ Len(below) = Len(above) \/ below[Len(above) + 1] = "/"

\* the directory lies under a known module path or contains one
RelatedToModule(directory) ==
    \E i \in DOMAIN projectModulesList :
        \/ IsPathPrefix(projectModulesList[i].path, directory)
        \/ IsPathPrefix(directory, projectModulesList[i].path)

\* number of records with the given id
CountWithId(records, id) ==
    Cardinality({i \in DOMAIN records : records[i].id = id})

\* totalOccurences of the record with the given id
TotalOf(records, id) ==
    records[CHOOSE i \in DOMAIN records : records[i].id = id].totalOccurences

\* the console shows that extractComponentsFromFile ran on the file
Scanned(filePath) == Log("scanning file", filePath) \in Range(console)

RejectionMessage == "Directory path does not include any module path"

\* C1: codebaseComponents holds at most one record per id
\* moduleName/name/kind: resolving a key again reuses its record.
UniqueMetadataIds ==
    \A i, j \in DOMAIN codebaseComponents :
        codebaseComponents[i].id = codebaseComponents[j].id => i = j

\* C2: every stored record has totalOccurences equal to the sum of its
\* filewiseOccurences, in both revisions of extractMetadata, also after a
\* call that failed at the line/column lookup.
TotalEqualsFilewiseSum ==
    /\ \A i \in DOMAIN codebaseComponents :
           codebaseComponents[i].totalOccurences =
               SumOf(codebaseComponents[i].filewiseOccurences)
    /\ \A id \in DOMAIN legacyCodebaseComponents :
           legacyCodebaseComponents[id].totalOccurences =
               SumOf(legacyCodebaseComponents[id].filewiseOccurences)

\* an extractMetadata call failed part-way on a key whose record is stored
PartialFailureOnStoredRecord ==
    /\ pc = "api"
    /\ Len(call) = 2
    /\ ~call[2].completed
    /\ \/ /\ call[2].op = "extractMetadata"
          /\ CountWithId(codebaseComponents, call[2].id) > 0
       \/ /\ call[2].op = "legacyExtractMetadata"
          /\ call[2].id \in DOMAIN legacyCodebaseComponents
          /\ legacyCodebaseComponents[call[2].id].totalOccurences = 2

\* the same file was scanned twice, with nothing else in between and no
\* failure
TwoScansOfOneFile ==
    /\ pc = "api"
    /\ Len(call) = 2
    /\ call[1].op = "extractComponentsFromFile"
    /\ call[2].op = "extractComponentsFromFile"
    /\ call[1].filePath = call[2].filePath
    /\ call[1].completed /\ call[2].completed

\* C3: after a second scan of a file every key matched in it has exactly one
\* record, whose totalOccurences grew by the number of candidates matched to
\* the key, and no record was added.
SecondScanOnlyIncrements ==
    TwoScansOfOneFile =>
        LET first  == call[1].codebaseComponents
            second == call[2].codebaseComponents
            pushed == SubSeq(call[2].projectComponents,
                             Len(call[1].projectComponents) + 1,
                             Len(call[2].projectComponents))
        IN /\ Len(second) = Len(first)
           /\ \A n \in DOMAIN pushed :
                  /\ CountWithId(first, pushed[n].id) = 1
                  /\ CountWithId(second, pushed[n].id) = 1
                  /\ TotalOf(second, pushed[n].id) =
                         TotalOf(first, pushed[n].id) + CountWithId(pushed, pushed[n].id)

\* the rule of processComponents for a candidate and a catalog entry
Satisfies(component, entry) ==
    /\ Truthy(component.name)
    /\ Truthy(Prop(entry, "name"))
    /\ BaseName(component.name) # <<>>
    /\ BaseName(component.name) = BaseName(entry.name)
    /\ \/ Includes(entry.kind, <<"function">>) /\ Includes(component.kind, <<"expr">>)
       \/ entry.kind = component.kind

\* the positions <<module, entry>> of the satisfying entries of a catalog
SatisfyingPositions(dataset, component) ==
    {pos \in UNION {{<<m, j>> : j \in DOMAIN dataset[m].bucket} : m \in DOMAIN dataset} :
        Satisfies(component, dataset[pos[1]].bucket[pos[2]])}

\* the first of them in catalog order
FirstSatisfying(dataset, component) ==
    CHOOSE pos \in SatisfyingPositions(dataset, component) :
        \A other \in SatisfyingPositions(dataset, component) :
            \/ pos[1] < other[1]
            \/ pos[1] = other[1] /\ pos[2] <= other[2]

\* C4: processComponents resolves a candidate to at most one catalog entry,
\* the first satisfying one in catalog order, so one candidate causes at
\* most one extractMetadata call.
OneResolutionPerCandidate ==
    (pc = "fn" /\ call.op = "processComponents" /\ call.done) =>
        IF SatisfyingPositions(call.dataset, call.component) = {}
        THEN projectComponents = <<>>
        ELSE LET pos   == FirstSatisfying(call.dataset, call.component)
                 entry == call.dataset[pos[1]].bucket[pos[2]]
             IN /\ Len(projectComponents) = 1
                /\ projectComponents[1].libraryName = entry.moduleName
                /\ projectComponents[1].designDocs = entry.docBrief

\* a finished processComponents call with one named candidate and a catalog
\* of one named entry
SingleEntryCall ==
    /\ pc = "fn"
    /\ call.op = "processComponents"
    /\ call.done
    /\ Len(call.dataset) = 1
    /\ Len(call.dataset[1].bucket) = 1
    /\ Truthy(call.component.name)
    /\ Truthy(call.dataset[1].bucket[1].name)

\* the rule as the claim words it
BaseAndKindAgree(component, entry) ==
    /\ BaseName(component.name) = BaseName(entry.name)
    /\ \/ Includes(entry.kind, <<"function">>) /\ Includes(component.kind, <<"expr">>)
       \/ entry.kind = component.kind

\* C5 as claimed: a named candidate and a named entry match exactly when
\* their base names are equal and the kinds are compatible.
MatchIffBaseAndKind ==
    SingleEntryCall =>
        ((projectComponents # <<>>) <=>
             BaseAndKindAgree(call.component, call.dataset[1].bucket[1]))

\* C5: a named candidate and a named entry match exactly when the
\* candidate's base name is not empty, the base names are equal, and either
\* the entry's kind contains 'function' and the candidate's contains 'expr'
\* or the kinds are equal.
MatchIffNonEmptyBaseAndKind ==
    SingleEntryCall =>
        ((projectComponents # <<>>) <=>
             /\ BaseName(call.component.name) # <<>>
             /\ BaseAndKindAgree(call.component, call.dataset[1].bucket[1]))

\* entry foo(bar:) of kind function.free was matched by candidate foo(bar:)
\* of kind expr.call
FunctionMatchedByCall ==
    /\ SingleEntryCall
    /\ call.component.name = NameFooBar
    /\ call.component.kind = KindExprCall
    /\ call.dataset[1].bucket[1].name = NameFooBar
    /\ call.dataset[1].bucket[1].kind = KindFunctionFree
    /\ Len(projectComponents) = 1

\* findLineAndColumn was applied to 'a\nbb\nccc' and offset 4
ExampleLocated ==
    /\ pc = "fn"
    /\ call.op = "findLineAndColumn"
    /\ call.done
    /\ call.fileContent = ContentABC
    /\ call.offset = 4

\* C6 as claimed: on 'a\nbb\nccc' offset 4 is line 2, column 2.
ExampleIsLine2Column2 ==
    ExampleLocated => call.result = [line |-> 2, column |-> 2]

\* C6: on 'a\nbb\nccc' offset 4 (the newline that ends line 2) is line 2,
\* column 3; the second b, offset 3, is line 2, column 2.
ExampleIsLine2Column3 ==
    /\ ExampleLocated => call.result = [line |-> 2, column |-> 3]
    /\ (/\ pc = "fn"
        /\ call.op = "findLineAndColumn"
        /\ call.done
        /\ call.fileContent = ContentABC
        /\ call.offset = 3) => call.result = [line |-> 2, column |-> 2]

\* an excluded name lies on the way from the root down to the file
ExcludedBelow(root, filePath) ==
    \E e \in DOMAIN excludedFolders :
        Includes(SubSeq(filePath, Len(root) + 1, Len(filePath)),
                 Slash \o excludedFolders[e])

\* the source files below a known module path
FilesOfModules ==
    {f \in SwiftFiles :
        \E i \in DOMAIN projectModulesList : IsPathPrefix(projectModulesList[i].path, f)}

\* C7: scanFilesRecursively accepts every directory that lies under a known
\* module path or contains one, so the .swift files at any depth below a
\* module root reached by the walk are dispatched to the per-file pipeline.
ModuleDirectoriesAccepted ==
    /\ \A n \in DOMAIN console :
           console[n].msg = RejectionMessage => ~RelatedToModule(console[n].path)
    /\ (pc = "done" /\ unreadable = {}) =>
           \A f \in FilesOfModules :
               (\E r \in Range(filePaths) :
                    /\ IsDirectory(r)
                    /\ IsPathPrefix(r, f)
                    /\ ~ExcludedBelow(r, f)) => Scanned(f)

\* a directory that neither lies under a known module path nor contains one
OutsideRoot(path) == IsDirectory(path) /\ ~RelatedToModule(path)

\* C8: while scanFilesRecursively works on a root directory outside all
\* known module paths, codebaseComponents and projectComponents do not
\* change (no file below it is processed), and every other root of the same
\* invocation is still scanned, whatever the order of the roots.
OutsideRootsChangeNothing ==
    /\ [][(pc = "walk" /\ OutsideRoot(filePaths[rootIndex])) =>
              /\ codebaseComponents' = codebaseComponents
              /\ projectComponents' = projectComponents]_vars
    /\ [](pc = "done" =>
              /\ Len(savedPaths) = Len(filePaths)
              /\ \A r \in Range(filePaths) :
                     /\ (IsFile(r) /\ EndsWith(r, <<".swift">>)) => Scanned(r)
                     /\ (IsDirectory(r) /\ RelatedToModule(r)) =>
                            Log(RejectionMessage, r) \notin Range(console))

\* C9: with an empty projectModulesList every directory handed to
\* scanFilesRecursively is rejected with guidance and no file is processed
\* through a directory, so a scan whose roots are all directories leaves
\* codebaseComponents unchanged.
NoModulesRejectsDirectories ==
    projectModulesList = <<>> =>
        /\ stack = <<>>
        /\ \A f \in SwiftFiles : Scanned(f) => f \in Range(filePaths)
        /\ \A n \in 1..(rootIndex - 1) :
               IsDirectory(filePaths[n]) =>
                   Log(RejectionMessage, filePaths[n]) \in Range(console)
        /\ (\A r \in Range(filePaths) : ~IsFile(r)) =>
               /\ codebaseComponents = <<>>
               /\ projectComponents = <<>>
               /\ pc = "done" => outputFile = <<>>

\* a scan of directories only has ended without any known module although
\* the catalog has entries that the files below the roots would match
DirectoriesScannedWithoutModules ==
    /\ pc = "done"
    /\ projectModulesList = <<>>
    /\ componentsDataset = CatalogTwo
    /\ DirS \in Range(filePaths)
    /\ \A r \in Range(filePaths) : IsDirectory(r)

\* C10: initialize() eventually returns in every execution, also when
\* `swift build` never prints the awaited output or exits without it.
InitializeReturns ==
    <>(pc \notin {"initialize", "initiateBuild", "getDebugYaml"})

\* the manifest cannot be obtained: .build/debug.yaml is missing or is not
\* the YAML document getDebugYaml expects
ManifestUnavailable == manifest \in {ManifestMissing, ManifestMalformed}

\* a console line with this message was written
Logged(msg) == \E k \in DOMAIN console : console[k].msg = msg

\* C11: when .build/debug.yaml does not exist or cannot be parsed,
\* getDebugYaml rejects, projectModulesList stays empty and, once the build
\* has printed "Building", the scan command is at one of its steps
\* (initialize() completes without throwing, nothing leaves the command) and
\* goes on rather than aborting:
\* at every step before the output is saved a step of the same phase or the
\* hand-over to the next phase can be taken, and at the end the output file
\* holds the components.
ManifestFailureTolerated ==
    /\ ManifestUnavailable => projectModulesList = <<>>
    /\ (ManifestUnavailable /\ pc = "getDebugYaml") => GetDebugYaml(manifest).rejected
    /\ (ManifestUnavailable /\ buildProcess = "killed") =>
           /\ pc \in {"getDebugYaml", "checkDataset", "generateDataset",
                      "scan", "walk", "done"}
           /\ pc = "getDebugYaml" => ENABLED GetDebugYamlStep
           /\ pc = "checkDataset" => ENABLED (StartGenerateDataset \/ LoadDataset)
           /\ pc = "generateDataset" => ENABLED FinishGenerateDataset
           /\ pc = "scan" => ENABLED (ScanNextPath \/ SaveCodebaseComponents)
           /\ pc = "walk" =>
                  ENABLED (\/ StatFails \/ RejectDirectory \/ EnterDirectory
                           \/ SkipFile \/ NextEntry \/ LeaveDirectory \/ FinishPath
                           \/ \E structureAnswers \in BOOLEAN :
                                  ExtractComponentsFromFile(structureAnswers)
                           \/ \E stillReadable \in BOOLEAN :
                                  ExtractComponentsResumes(stillReadable))
           /\ pc = "done" => outputFile = codebaseComponents

\* a scan that ran to its end although the manifest was missing
ScanCompletedWithoutManifest ==
    /\ manifest = ManifestMissing
    /\ Logged("Error reading file:")
    /\ pc = "done"
    /\ savedPaths # <<>>


\* the directory dir is one of the ancestors of path
UnderDirectory(path, dir) == Includes(path, Slash \o dir \o Slash)

\* the modules added by the call at position k of `call`
ModulesAdded(k) ==
    LET before == IF k = 1 THEN <<>> ELSE call[k - 1].projectModulesList
        after  == call[k].projectModulesList
    IN SubSeq(after, Len(before) + 1, Len(after))

\* the `C.` commands whose first input is under .build/checkouts or is not
\* under .build
SourceCommands(commands) ==
    SelectSeq(commands,
              LAMBDA c : /\ StartsWith(c.key, <<"C", ".">>)
                         /\ \/ UnderDirectory(c.inputs[1], BuildCheckouts)
                            \/ ~UnderDirectory(c.inputs[1], <<".build">>))

\* the text of key between `C.` and its last `-`
TextBetweenPrefixAndLastDash(key) ==
    SubSeq(key, 3, Max({i \in DOMAIN key : key[i] = "-"}) - 1)

\* C12: for every well-formed manifest getDebugYaml adds exactly one module
\* per `C.` command whose first input is under .build/checkouts or is not
\* under .build, and none for any other command; the name of each module is
\* the key text between `C.` and the last `-`, and isThirdParty is true
\* exactly when the derived source path lies under .build/checkouts.
TopologyIsExact ==
    pc = "setup" =>
        \A k \in DOMAIN call :
            (call[k].op = "initialize" /\ call[k].ok) =>
                LET added    == ModulesAdded(k)
                    expected == SourceCommands(manifest.commands)
                IN /\ Len(added) = Len(expected)
                   /\ \A i \in DOMAIN added :
                          /\ added[i].name = TextBetweenPrefixAndLastDash(expected[i].key)
                          /\ added[i].originalPath = expected[i].inputs[1]
                          /\ added[i].isThirdParty
                                 <=> UnderDirectory(added[i].path \o Slash, BuildCheckouts)

\* C13: projectModulesList never contains two modules with the same name and
\* a module is never changed after it is added, for any manifest and any
\* number of initialize() calls on one scanner.
ModulesUniqueAndImmutable ==
    /\ [](pc = "setup" =>
            \A i, j \in DOMAIN projectModulesList :
                i # j => projectModulesList[i].name # projectModulesList[j].name)
    /\ [][pc = "setup" =>
            \A i \in DOMAIN projectModulesList :
                /\ i \in DOMAIN projectModulesList'
                /\ projectModulesList'[i] = projectModulesList[i]]_vars

\* the task of module i of generateDataset ended with a logged failure
TaskFailed(i) ==
    Log("Error generating dataset for module", projectModulesList[i].name)
        \in Range(console)

\* the tasks that ended without a failure
TasksSucceeded == {i \in DOMAIN projectModulesList : i \notin tasks /\ ~TaskFailed(i)}

\* the positions <<m, j>> of the catalog, bucket m and entry j
CatalogPositions(dataset) ==
    UNION {{<<m, j>> : j \in DOMAIN dataset[m].bucket} : m \in DOMAIN dataset}

\* how often the entry occurs in the catalog
OccurrencesInCatalog(dataset, entry) ==
    Cardinality({p \in CatalogPositions(dataset) : dataset[p[1]].bucket[p[2]] = entry})

\* how often the entry occurs in the responses given to the tasks in done
OccurrencesInResponses(done, entry) ==
    Cardinality(UNION {{<<i, j>> : j \in {n \in DOMAIN Completions(projectModulesList[i].name) :
                                             Completions(projectModulesList[i].name)[n] = entry}} :
                       i \in done})

\* every entry the oracle can return, and every entry in the catalog
KnownEntries ==
    UNION {Range(Completions(projectModulesList[i].name)) : i \in DOMAIN projectModulesList}
        \cup {componentsDataset[p[1]].bucket[p[2]] : p \in CatalogPositions(componentsDataset)}

\* C14: generateDataset is partial-failure tolerant: whichever modules fail
\* (file unreadable, oracle failure, unparseable output), it goes on to its
\* end, the catalog holds no entry from a failed module and holds every
\* entry returned for each other module.
FailedModulesAddNothing ==
    /\ [](pc = "generateDataset" =>
            \A entry \in KnownEntries :
                OccurrencesInCatalog(componentsDataset, entry)
                    = OccurrencesInResponses(TasksSucceeded, entry))
    /\ [][pc = "generateDataset" =>
            \/ pc' = "generateDataset" /\ tasks' # tasks
            \/ pc' = "scan" /\ tasks = {}]_vars

\* generateDataset has ended with one module failed and another one answered
OneModuleFailedOneAnswered ==
    /\ pc = "generateDataset"
    /\ tasks = {}
    /\ \E i \in DOMAIN projectModulesList : TaskFailed(i)
    /\ TasksSucceeded # {}
    /\ componentsDataset # <<>>

\* the entries of the response given to the task of module i that belong in
\* the bucket of moduleName
ResponseFor(i, moduleName) ==
    SelectSeq(Completions(projectModulesList[i].name),
              LAMBDA entry : entry.moduleName = moduleName)

\* C15: during generateDataset every bucket componentsDataset[m] is written
\* by at most one module task: no bucket holds entries that come from the
\* oracle responses of two different tasks.
BucketsWrittenByOneTask ==
    pc = "generateDataset" =>
        \A m \in DOMAIN componentsDataset :
            \E i \in DOMAIN projectModulesList :
                /\ i \notin tasks
                /\ componentsDataset[m].bucket
                       = ResponseFor(i, componentsDataset[m].moduleName)

\* the scan action has reached its loop over the root paths
ScanPhase == pc \in {"scan", "walk", "done"}

\* the catalogs held by the well-formed catalog files a run can start with
PersistedCatalogs ==
    {JsonParse(f.content).value : f \in {g \in DatasetFiles : g.exists /\ JsonParse(g.content).ok}}

\* a step before the scan loop has logged a failure
EarlierStepFailed ==
    \/ Logged("Error occurred during build")
    \/ Logged("Error reading file:")
    \/ Logged("Error parsing YAML:")
    \/ Logged("Error loading dataset:")
    \/ Logged("Error generating dataset for module")

\* C16: when the catalog file exists at the start of the scan command, the
\* completion oracle is never invoked and matching uses the catalog loaded
\* from that file; when it does not exist, generateDataset is chosen and its
\* catalog is in the file before the first path is scanned; and the catalog
\* used for matching is never empty merely because an earlier step failed.
CatalogLoadedOrGenerated ==
    /\ \A catalog \in PersistedCatalogs :
           (datasetFile = DatasetFile(TRUE, JsonStringify(catalog)))
               => /\ [](pc # "generateDataset")
                  /\ [](ScanPhase => componentsDataset = catalog)
    /\ (~datasetFile.exists)
           => /\ [](pc = "checkDataset" => ~datasetFile.exists)
              /\ [](ScanPhase => datasetFile = DatasetFile(TRUE, JsonStringify(componentsDataset)))
    /\ [](ScanPhase /\ componentsDataset = <<>> => ~EarlierStepFailed)

\* C17: saveDataset followed by loadDataset restores a catalog identical to
\* the one saved: the same module keys in the same order and, for each
\* module, the same entries in the same order with the same name, kind,
\* moduleName and docBrief.  loadDataset assigns what it parsed whatever the
\* scanner held before, so the scanner that loads is as good as a fresh one.
SaveLoadRoundTrip ==
    pc = "setup" =>
        \A k \in DOMAIN call :
            (/\ k + 1 \in DOMAIN call
             /\ call[k].op = "saveDataset"
             /\ call[k + 1].op = "loadDataset")
                => /\ call[k + 1].ok
                   /\ call[k + 1].componentsDataset = call[k].componentsDataset

\* a catalog with quotes, a line break and a backslash in a docBrief and an
\* entry without docBrief has been saved and loaded again
QuotedCatalogSavedAndLoaded ==
    /\ pc = "setup"
    /\ Len(call) = 2
    /\ call[1].op = "saveDataset"
    /\ call[1].componentsDataset = CatalogQuoted
    /\ call[2].op = "loadDataset"
    /\ componentsDataset = CatalogQuoted

\* the names listed with --design that equal moduleName case-insensitively
ListedDesignSystems(moduleName) ==
    SelectSeq(design, LAMBDA name : ToLowerCase(name) = ToLowerCase(moduleName))

\* C18: when the scan command is run with -d, every record created for an
\* entry whose owning module equals a listed name case-insensitively has that
\* name in designSystems; designSystems is empty only when no listed name
\* equals the libraryName of the record.
DesignSystemsFollowOption ==
    \A k \in DOMAIN codebaseComponents :
        LET record == codebaseComponents[k]
            listed == ListedDesignSystems(record.libraryName)
        IN /\ Range(listed) \subseteq Range(record.designSystems)
           /\ record.designSystems = <<>> => listed = <<>>

\* the names in directory that are not excluded, as paths
EntriesToVisit(directory) ==
    {Join(directory, ReadDir(directory)[k]) :
        k \in {n \in DOMAIN ReadDir(directory) :
                  \A e \in DOMAIN excludedFolders :
                      excludedFolders[e] # ReadDir(directory)[n]}}

\* the paths scanFilesRecursively is to be called on when started on path:
\* the path itself and, for a directory that is accepted and can be listed,
\* what is to be visited from each of its entries
RECURSIVE PathsToVisit(_)
PathsToVisit(path) ==
    {path} \cup
        IF IsDirectory(path) /\ ValidPath(projectModulesList, path) /\ path \notin unreadable
        THEN UNION {PathsToVisit(entry) : entry \in EntriesToVisit(path)}
        ELSE {}

\* what the console shows of a call of scanFilesRecursively on path
VisitShown(path) ==
    IF IsDirectory(path)
    THEN IF ~ValidPath(projectModulesList, path)
         THEN Log(RejectionMessage, path) \in Range(console)
         ELSE path \in unreadable => Log("Error scanning directory", path) \in Range(console)
    ELSE IF IsFile(path)
    THEN EndsWith(path, <<".swift">>) => Scanned(path)
    ELSE Log("Error scanning directory", path) \in Range(console)

\* the step logs a failure of stat, readdir or readFile
FailureLogged ==
    /\ console' # console
    /\ console'[Len(console')].msg \in {"Error scanning directory",
                                        "Error scanning Swift file"}

\* C19: a stat, readdir or read failure on one path makes scanFilesRecursively
\* abandon only that branch: the calls on the directories above go on, and
\* every later sibling entry and every later root path is still visited.
FailureAbandonsOnlyItsBranch ==
    /\ [][(pc = "walk" /\ FailureLogged) =>
            /\ stack' = stack
            /\ pc' = "walk"
            /\ rootIndex' = rootIndex]_vars
    /\ [](pc = "done" =>
            \A r \in DOMAIN filePaths :
                \A path \in PathsToVisit(filePaths[r]) : VisitShown(path))

\* a scan has ended in which stat failed on an entry and a later entry of the
\* same directory was scanned, and in which a root path after a failed one
\* was visited
LaterSiblingAndRootVisited ==
    /\ pc = "done"
    /\ \E i, j \in DOMAIN console :
           /\ i < j
           /\ console[i] = Log("Error scanning directory", Join(DirA, <<"gone">>))
           /\ console[j] = Log("scanning file", FileA)
    /\ filePaths[1] = DirQ
    /\ Len(filePaths) > 1

\* the name is in the exclusion set
Excluded(name) == \E e \in DOMAIN excludedFolders : excludedFolders[e] = name

\* the name under which the directory above lists the path
EntryName(above, path) == SubSeq(path, Len(above) + 2, Len(path))

\* C20: during a directory walk no entry whose name is in the exclusion set
\* is scanned or recursed into, at any depth, no file below an excluded
\* directory is processed, and every entry not in the set is visited.
ExcludedEntriesSkipped ==
    /\ [](pc = "walk" =>
            /\ \A k \in DOMAIN stack :
                   k > 1 => ~Excluded(EntryName(stack[k - 1].path, stack[k].path))
            /\ (visiting # NoPath /\ stack # <<>>) =>
                   ~Excluded(EntryName(stack[Len(stack)].path, visiting)))
    /\ [](\A n \in DOMAIN console :
            console[n].msg = "scanning file" =>
                \E r \in DOMAIN filePaths :
                    /\ IsPathPrefix(filePaths[r], console[n].path)
                    /\ ~ExcludedBelow(filePaths[r], console[n].path))
    /\ [][(pc = "walk" /\ visiting = NoPath /\ stack # <<>>
              /\ Len(stack') = Len(stack) /\ stack' # stack) =>
            LET top == stack[Len(stack)]
            IN visiting' = IF Excluded(top.files[top.next])
                           THEN NoPath
                           ELSE Join(top.path, top.files[top.next])]_vars

\* a walk from /p/S with Sub excluded has ended: the file next to Sub was
\* processed and the file below Sub was not
SubSkippedSiblingScanned ==
    /\ pc = "done"
    /\ Excluded(<<"Sub">>)
    /\ filePaths = <<DirS>>
    /\ Scanned(FileA)
    /\ ~Scanned(FileB)

\* the step in which the extractComponents of a file whose structural oracle
\* failed resumes
OracleFailureHandled ==
    /\ extracting # <<>>
    /\ ~extracting[1].structureAnswers
    /\ extracting' # extracting

\* C21: when the structural oracle fails or returns unparseable output for a
\* file, that file changes neither codebaseComponents nor projectComponents,
\* the failure is logged and stays inside the file's pipeline (the walk is
\* where it was), and the walker goes on to the remaining files: at the end
\* of the scan every file to be visited has been dispatched.
OracleFailureSkipsOnlyThatFile ==
    /\ [][OracleFailureHandled =>
            /\ codebaseComponents' = codebaseComponents
            /\ projectComponents' = projectComponents
            /\ console' = Append(console, Log("Error extracting components from file",
                                              extracting[1].filePath))
            /\ pc' = "walk"
            /\ stack' = stack
            /\ rootIndex' = rootIndex]_vars
    /\ [](pc = "done" /\ Logged("Error extracting components from file") =>
            \A r \in DOMAIN filePaths :
                \A path \in PathsToVisit(filePaths[r]) :
                    (IsFile(path) /\ EndsWith(path, <<".swift">>)) => Scanned(path))

\* a scan has ended in which the oracle failed for a.swift, nothing was
\* recorded for it, and s.swift, visited after it, was matched
OracleFailedThenNextFileMatched ==
    /\ pc = "done"
    /\ \E i, j \in DOMAIN console :
           /\ i < j
           /\ console[i] = Log("Error extracting components from file", FileA)
           /\ console[j] = Log("scanning file", FileS)
    /\ codebaseComponents # <<>>
    /\ \A k \in DOMAIN codebaseComponents :
           FileA \notin DOMAIN codebaseComponents[k].filewiseOccurences

(***************************************************************************)
(* C22: line and column of every offset                                    *)
(***************************************************************************)
\* the newlines of fileContent at indices below offset
NewlinesBefore(fileContent, offset) ==
    {i \in 0..(offset - 1) : CharAt(fileContent, i) = NL}

\* the index just after the last newline below offset, 0 when there is none
AfterLastNewline(fileContent, offset) ==
    IF NewlinesBefore(fileContent, offset) = {}
    THEN 0
    ELSE Max(NewlinesBefore(fileContent, offset)) + 1

\* a findLineAndColumn call that has returned
Located ==
    /\ pc = "fn"
    /\ call.op = "findLineAndColumn"
    /\ call.done

\* C22: for every content and every offset from 0 to its length,
\* findLineAndColumn returns line = 1 + the number of newlines at indices
\* below the offset and column = offset - s + 1, s being the index just after
\* the last newline below the offset (0 when there is none); so line >= 1 and
\* column >= 1.
LineAndColumnOfEveryOffset ==
    Located =>
        /\ call.result.line = 1 + Cardinality(NewlinesBefore(call.fileContent, call.offset))
        /\ call.result.column =
               call.offset - AfterLastNewline(call.fileContent, call.offset) + 1
        /\ call.result.line >= 1
        /\ call.result.column >= 1

\* an offset at the end of the content, on a later line and past its first
\* column, has been located
LocatedAtEndOfLaterLine ==
    /\ Located
    /\ call.offset = Len(call.fileContent)
    /\ call.result.line >= 2
    /\ call.result.column >= 2

(***************************************************************************)
(* C23: the metadata id                                                    *)
(***************************************************************************)
\* kind without its leading 'source.lang.swift.'
WithoutSwiftPrefix(kind) == SubSeq(kind, Len(SwiftPrefix) + 1, Len(kind))

\* '<moduleName>/<name>/<kind without the prefix>'
IdOf(moduleName, name, kind) ==
    moduleName \o <<"/">> \o name \o <<"/">> \o WithoutSwiftPrefix(kind)

\* a processComponents call on the two candidates of a file has returned
PairProcessed ==
    /\ pc = "fn"
    /\ call.op = "processComponentsOfFile"
    /\ call.done

\* the records that carry the given id
RecordsWithId(id) == {k \in DOMAIN codebaseComponents : codebaseComponents[k].id = id}

\* the occurrences counted under the given id
CountedUnder(id) ==
    LET at == RecordsWithId(id)
        RECURSIVE Total(_)
        Total(S) == IF S = {} THEN 0
                    ELSE LET k == CHOOSE x \in S : TRUE
                         IN codebaseComponents[k].totalOccurences + Total(S \ {k})
    IN Total(at)

\* the candidates of the call that have the name and the kind of c
SameNameAndKind(c) ==
    {i \in DOMAIN call.components :
        /\ call.components[i].name = c.name
        /\ call.components[i].kind = c.kind}

\* C23: the id of a record is '<moduleName of the catalog entry>/<full
\* key.name of the candidate>/<key.kind without source.lang.swift.>', so two
\* candidates that matched the same entry and differ in full name or in kind
\* are counted under different records.
MetadataIdFromModuleNameKind ==
    PairProcessed =>
        /\ \A k \in DOMAIN codebaseComponents :
               \E i \in DOMAIN call.components, m \in DOMAIN call.dataset :
                   /\ codebaseComponents[k].id =
                          IdOf(call.dataset[m].moduleName, call.components[i].name,
                               call.components[i].kind)
                   /\ codebaseComponents[k].name = call.components[i].name
                   /\ codebaseComponents[k].type =
                          WithoutSwiftPrefix(call.components[i].kind)
                   /\ codebaseComponents[k].libraryName = call.dataset[m].moduleName
        /\ \A i \in DOMAIN call.components, m \in DOMAIN call.dataset :
               CountedUnder(IdOf(call.dataset[m].moduleName, call.components[i].name,
                                 call.components[i].kind))
                   = Cardinality(SameNameAndKind(call.components[i]))

\* a declaration foo(bar:) and a call foo of one file matched the entry of
\* module App and are held by two records
DeclarationAndCallApart ==
    /\ PairProcessed
    /\ call.dataset = CatalogApp
    /\ call.components[1].name = NameFooBar
    /\ call.components[1].kind = KindFunctionFree
    /\ call.components[2].name = NameFoo
    /\ call.components[2].kind = KindExprCall
    /\ Len(codebaseComponents) = 2
    /\ codebaseComponents[1].id # codebaseComponents[2].id

(***************************************************************************)
(* C24: thirdParty and isSelfDeclared                                      *)
(***************************************************************************)
\* the modules of the topology that carry the given name
ModulesNamed(moduleName) ==
    {i \in DOMAIN projectModulesList : projectModulesList[i].name = moduleName}

\* C24: every record of codebaseComponents has isSelfDeclared = NOT
\* thirdParty, and thirdParty is the isThirdParty flag of the module of
\* projectModulesList named by libraryName; when no module has that name
\* thirdParty is false and isSelfDeclared is true.
ThirdPartyFollowsTopology ==
    \A k \in DOMAIN codebaseComponents :
        LET record == codebaseComponents[k]
        IN /\ record.isSelfDeclared = ~record.thirdParty
           /\ \A i \in ModulesNamed(record.libraryName) :
                  record.thirdParty = projectModulesList[i].isThirdParty
           /\ ModulesNamed(record.libraryName) = {} =>
                  /\ record.thirdParty = FALSE
                  /\ record.isSelfDeclared = TRUE

\* the scan has ended with a record of the dependency Lib and a record of
\* the first-party module App, both modules being in the topology
DependencyAndOwnRecorded ==
    /\ pc = "done"
    /\ ModulesNamed(ModLib) # {}
    /\ ModulesNamed(ModApp) # {}
    /\ \E k \in DOMAIN codebaseComponents :
           /\ codebaseComponents[k].libraryName = ModLib
           /\ codebaseComponents[k].thirdParty
    /\ \E k \in DOMAIN codebaseComponents :
           /\ codebaseComponents[k].libraryName = ModApp
           /\ codebaseComponents[k].isSelfDeclared

(***************************************************************************)
(* C25: filewiseLocation and filewiseOccurences                            *)
(***************************************************************************)
\* the file has been dispatched to the pipeline exactly once
ScannedOnce(filePath) ==
    Cardinality({n \in DOMAIN console : console[n] = Log("scanning file", filePath)}) = 1

\* the positions, among the candidates of the file, of those with the name
\* and the type of the record
OccurrencesIn(filePath, record) ==
    LET components == ExtractComponentsFromStructure(FileStructure(filePath))
    IN {i \in DOMAIN components :
           /\ components[i].name = record.name
           /\ components[i].kind = SwiftPrefix \o record.type}

\* the offset of the last of them
LastOffsetIn(filePath, record) ==
    ExtractComponentsFromStructure(FileStructure(filePath))
        [Max(OccurrencesIn(filePath, record))].offset

\* C25: for every record and every file f with an occurrence,
\* filewiseLocation[f] holds exactly one {line, column, offset}, that of the
\* most recent resolution of the record's key in f, while filewiseOccurences[f]
\* counts every occurrence of the key in f.
LocationIsLatestCountIsAll ==
    pc = "done" =>
        \A k \in DOMAIN codebaseComponents :
            \A f \in DOMAIN codebaseComponents[k].filewiseOccurences :
                ScannedOnce(f) =>
                    /\ f \in DOMAIN codebaseComponents[k].filewiseLocation
                    /\ Len(codebaseComponents[k].filewiseLocation[f]) = 1
                    /\ codebaseComponents[k].filewiseLocation[f][1].offset =
                           LastOffsetIn(f, codebaseComponents[k])
                    /\ codebaseComponents[k].filewiseOccurences[f] =
                           Cardinality(OccurrencesIn(f, codebaseComponents[k]))

(***************************************************************************)
(* C26: the candidates of a structure tree                                 *)
(***************************************************************************)
\* the node reached from `node` by the child positions of `path`
RECURSIVE NodeAt(_, _)
NodeAt(node, path) ==
    IF path = <<>> THEN node ELSE NodeAt(node.substructure[Head(path)], Tail(path))

\* the paths, as child positions, from `node` to itself and to every node
\* below it
RECURSIVE PathsBelow(_)
PathsBelow(node) ==
    {<<>>} \cup UNION {{<<j>> \o path : path \in PathsBelow(node.substructure[j])} :
                         j \in DOMAIN node.substructure}

\* the proper descendants of the root, by their paths
Descendants(fileStructure) == PathsBelow(fileStructure) \ {<<>>}

\* p comes before q in pre-order: p is an ancestor of q, or p branches off
\* to the left of q
Before(p, q) ==
    \/ Len(p) < Len(q) /\ SubSeq(q, 1, Len(p)) = p
    \/ \E n \in 1..Min({Len(p), Len(q)}) :
           /\ SubSeq(p, 1, n - 1) = SubSeq(q, 1, n - 1)
           /\ p[n] < q[n]

\* the descendants whose kind has one of the three prefixes
Retained(fileStructure) ==
    {path \in Descendants(fileStructure) :
        \/ StartsWith(NodeAt(fileStructure, path).kind, SwiftPrefix \o <<"decl">>)
        \/ StartsWith(NodeAt(fileStructure, path).kind, SwiftPrefix \o <<"expr">>)
        \/ StartsWith(NodeAt(fileStructure, path).kind, SwiftPrefix \o <<"structure">>)}

\* an extractComponentsFromStructure call that has returned
Extracted ==
    /\ pc = "fn"
    /\ call.op = "extractComponentsFromStructure"
    /\ call.done

\* C26: on a tree whose nodes all carry a key.kind,
\* extractComponentsFromStructure returns exactly the proper descendants of
\* the root whose kind starts with source.lang.swift.decl, .expr or
\* .structure, each once and in pre-order, those below a node that is not
\* retained included.
RetainedDescendantsInPreOrder ==
    Extracted =>
        /\ Len(call.result) = Cardinality(Retained(call.fileStructure))
        /\ \A path \in Retained(call.fileStructure) :
               call.result[1 + Cardinality({q \in Retained(call.fileStructure) :
                                               Before(q, path)})]
                   = NodeAt(call.fileStructure, path)

\* a tree has been traversed in which a retained node lies below a brace
\* statement that is not retained and before a retained sibling of the brace
NestedBelowUnretainedExtracted ==
    /\ Extracted
    /\ Len(call.fileStructure.substructure) = 2
    /\ call.fileStructure.substructure[1].kind = KindStmtBrace
    /\ call.fileStructure.substructure[2].kind = KindExprCall
    /\ <<1, 1>> \in Retained(call.fileStructure)
    /\ Len(call.result) >= 2
    /\ call.result[1] = NodeAt(call.fileStructure, <<1, 1>>)

(***************************************************************************)
(* C27: a file's pipeline and what depends on it                           *)
(***************************************************************************)
\* C27: when the awaited extractComponentsFromFile has returned and the
\* walker moves on from the file, the extraction, matching and aggregation
\* of that file have been applied to codebaseComponents; and
\* saveCodebaseComponents runs only after the pipeline of every dispatched
\* file has completed, the output holding every match of the scan.
PipelineAppliedWhenFileReturns ==
    /\ (pc = "walk" /\ visiting = NoPath) => extracting = <<>>
    /\ pc = "done" => (extracting = <<>> /\ outputFile = codebaseComponents)

(***************************************************************************)
(* C28: a failing initialize and the catalog file                          *)
(***************************************************************************)
\* the step in which initialize() fails: the build cannot be started, or
\* the manifest is missing or malformed
InitializeFails ==
    \/ pc = "initiateBuild" /\ buildProcess' = "failed"
    \/ pc = "getDebugYaml" /\ ManifestUnavailable /\ pc' = "checkDataset"

\* C28: a failing initialize() leaves components_dataset.json as it was: an
\* existing catalog is not overwritten, a missing file is not created.
FailingInitializeKeepsCatalogFile ==
    [][InitializeFails => datasetFile' = datasetFile]_vars

(***************************************************************************)
(* C29: the catalog and the order in which the tasks complete              *)
(***************************************************************************)
\* the catalog built when the tasks that succeeded complete in the order of
\* projectModulesList, from module i on
RECURSIVE InTopologyOrder(_, _)
InTopologyOrder(dataset, i) ==
    IF i > Len(projectModulesList)
    THEN dataset
    ELSE InTopologyOrder(
             IF TaskFailed(i)
             THEN dataset
             ELSE UpdateDataset(dataset, Completions(projectModulesList[i].name), 1),
             i + 1)

\* C29: the catalog produced by generateDataset does not depend on the order
\* in which the per-module tasks complete: for a given topology and given
\* oracle responses every interleaving yields the module keys and the
\* entries of each bucket in one and the same order, that of the tasks
\* completing in topology order.
CatalogIndependentOfTaskOrder ==
    (pc = "generateDataset" /\ tasks = {}) =>
        componentsDataset = InTopologyOrder(<<>>, 1)

(***************************************************************************)
(* C30: a failing extractMetadata                                          *)
(***************************************************************************)
\* C30: when extractMetadata fails for a matched candidate nothing is added
\* to codebaseComponents or to projectComponents and no count changes: the
\* two lists grow together, and every element of projectComponents is a
\* complete metadata record with an id, stored in codebaseComponents.
FailedMetadataLeavesNoTrace ==
    /\ Len(projectComponents) = Len(codebaseComponents)
    /\ \A k \in DOMAIN projectComponents :
           /\ "id" \in DOMAIN projectComponents[k]
           /\ projectComponents[k] \in Range(codebaseComponents)

====
